--------------------------- MODULE Spec2Model ---------------------------
(***************************************************************************)
(* A model of the TikTok video filtering engine (src/video_filter.py) and  *)
(* of the collection run that feeds it (src/main.py).                      *)
(*                                                                         *)
(* Python values are tagged records: the tag t gives the Python type.      *)
(* A dict is a TLA+ function from key strings to values, so that a key     *)
(* may be absent.  A text string is a sequence of characters; a character  *)
(* is a one-letter string, or the name of a non-ASCII character (the       *)
(* module is ASCII): kj_ kanji, hi_ hiragana, ka_ katakana, hw_ half-width *)
(* katakana, fw_ full-width punctuation, emoji_.  A date-time string is    *)
(* kept by its parts (instant, separator, fraction, zone suffix).          *)
(* Time is counted in seconds.                                             *)
(***************************************************************************)
EXTENDS Integers, Sequences, FiniteSets, TLC

VARIABLES
    config,           \* VideoFilter's configuration (self.config and the fields read from it)
    now,              \* the clock read by datetime.now()
    videos,           \* the caller's list handed to filter_videos
    pc,               \* position in filter_videos: "ready", "loop", "done"
    idx,              \* index of the next record of the for loop
    filtered_videos,  \* filter_videos' local list of accepted, enhanced records
    filter_stats,     \* filter_videos' statistics dict
    outcomes,         \* per record, what the loop body did with it (history)
    run,              \* the collection run of main.py around filter_videos
    probe,            \* a single function applied to a single input (pure function checks)
    job,              \* BrightDataClient.wait_for_completion: the wait for a scraping job
    sheet,            \* SheetsManager: the worksheet, and the last upload to it
    system            \* TikTokBrightDataSystem: start-up, and run_collection's files and upload

vars == <<config, now, videos, pc, idx, filtered_videos, filter_stats, outcomes, run, probe,
          job, sheet, system>>

\* the variables of the components around the filtering engine
others == <<job, sheet, system>>

-----------------------------------------------------------------------------
(* Bounds of the model *)

\* longest batch of core catalogue records handed to filter_videos
MaxBatch == 2
\* longest list a source client call returns in a collection run
MaxFetch == 2
\* longest list of records handed to an upload, and most rows of a worksheet
MaxUpload == 2
MaxRows == 4
\* longest max_wait_time and check_interval of wait_for_completion, in ticks
MaxWaitTime == 4
MaxInterval == 2

-----------------------------------------------------------------------------
(* Python values *)

PyNone == [t |-> "none"]
PyInt(n) == [t |-> "int", v |-> n]
PyBool(b) == [t |-> "bool", v |-> b]
PyStr(chars) == [t |-> "str", s |-> chars]
PyDict(d) == [t |-> "dict", d |-> d]
PyList(items) == [t |-> "list", items |-> items]
\* a rational number num/den with den > 0, standing for a Python float
PyFloat(num, den) == [t |-> "float", num |-> num, den |-> den]
\* the string a datetime formats to: at is the instant, sep the separator between
\* date and time, frac whether a fraction of a second is written, zone the suffix
PyDateStr(at, sep, frac, zone) ==
    [t |-> "str", dt |-> [at |-> at, sep |-> sep, frac |-> frac, zone |-> zone]]

EmptyDict == [k \in {} |-> PyNone]

IsStr(x) == x.t = "str"
IsDateStr(x) == x.t = "str" /\ "dt" \in DOMAIN x
IsText(x) == x.t = "str" /\ "s" \in DOMAIN x

\* Python's truth value of x (bool(x))
Truthy(x) ==
    CASE x.t = "none" -> FALSE
      [] x.t = "bool" -> x.v
      [] x.t = "int" -> x.v # 0
      [] x.t = "float" -> x.num # 0
      [] x.t = "str" -> IF IsText(x) THEN x.s # <<>> ELSE TRUE
      [] x.t = "dict" -> DOMAIN x.d # {}
      [] x.t = "list" -> x.items # <<>>
      [] OTHER -> TRUE

\* a or b
PyOr(a, b) == IF Truthy(a) THEN a ELSE b

\* d.get(key) and d.get(key, default) on a TLA+ function d
Get(d, key) == IF key \in DOMAIN d THEN d[key] ELSE PyNone
GetDefault(d, key, default) == IF key \in DOMAIN d THEN d[key] ELSE default

\* results of a computation that may raise
Ok(v) == [exc |-> "none", v |-> v]
Raise(e) == [exc |-> e]
Raised(r) == r.exc # "none"

\* x.get(key) where x is any Python value: AttributeError unless x is a dict
ValueGet(x, key) ==
    IF x.t = "dict" THEN Ok(Get(x.d, key)) ELSE Raise("AttributeError")

-----------------------------------------------------------------------------
(* Characters and strings *)

UpperLetters ==
    <<"A","B","C","D","E","F","G","H","I","J","K","L","M",
      "N","O","P","Q","R","S","T","U","V","W","X","Y","Z">>
LowerLetters ==
    <<"a","b","c","d","e","f","g","h","i","j","k","l","m",
      "n","o","p","q","r","s","t","u","v","w","x","y","z">>
Digits == <<"0","1","2","3","4","5","6","7","8","9">>

\* the characters str.split() and str.strip() treat as white space
Whitespace == {" ", "\t", "\n"}

IndexIn(seq, c) == CHOOSE i \in 1..Len(seq) : seq[i] = c
IsIn(seq, c) == \E i \in 1..Len(seq) : seq[i] = c

LowerChar(c) == IF IsIn(UpperLetters, c) THEN LowerLetters[IndexIn(UpperLetters, c)] ELSE c
UpperChar(c) == IF IsIn(LowerLetters, c) THEN UpperLetters[IndexIn(LowerLetters, c)] ELSE c

\* str.lower() and str.upper()
Lower(s) == [i \in 1..Len(s) |-> LowerChar(s[i])]
Upper(s) == [i \in 1..Len(s) |-> UpperChar(s[i])]

\* str.replace(c, '') for a one-character c
RECURSIVE RemoveChar(_, _)
RemoveChar(s, c) ==
    IF s = <<>> THEN <<>>
    ELSE IF Head(s) = c THEN RemoveChar(Tail(s), c)
    ELSE <<Head(s)>> \o RemoveChar(Tail(s), c)

\* pat in s
Contains(s, pat) ==
    \E i \in 1..(Len(s) - Len(pat) + 1) : SubSeq(s, i, i + Len(pat) - 1) = pat

\* s.endswith(suffix)
EndsWith(s, suffix) ==
    /\ Len(s) >= Len(suffix)
    /\ SubSeq(s, Len(s) - Len(suffix) + 1, Len(s)) = suffix

\* str.strip()
RECURSIVE LStrip(_)
LStrip(s) == IF s # <<>> /\ Head(s) \in Whitespace THEN LStrip(Tail(s)) ELSE s
RECURSIVE RStrip(_)
RStrip(s) ==
    IF s # <<>> /\ s[Len(s)] \in Whitespace THEN RStrip(SubSeq(s, 1, Len(s) - 1)) ELSE s
Strip(s) == RStrip(LStrip(s))

\* len(s.split()): the number of white-space delimited tokens
TokenCount(s) ==
    Cardinality({i \in 1..Len(s) :
        /\ s[i] \notin Whitespace
        /\ (i = 1 \/ s[i - 1] \in Whitespace)})

\* ' '.join(parts) for a sequence of character sequences
RECURSIVE JoinSpace(_)
JoinSpace(parts) ==
    IF parts = <<>> THEN <<>>
    ELSE IF Len(parts) = 1 THEN parts[1]
    ELSE parts[1] \o <<" ">> \o JoinSpace(Tail(parts))

RECURSIVE Pow10(_)
Pow10(n) == IF n = 0 THEN 1 ELSE 10 * Pow10(n - 1)

IsDigit(c) == IsIn(Digits, c)
DigitVal(c) == IndexIn(Digits, c) - 1

\* the number written by a sequence of digits
RECURSIVE DigitsVal(_)
DigitsVal(s) == IF s = <<>> THEN 0 ELSE 10 * DigitsVal(SubSeq(s, 1, Len(s) - 1)) + DigitVal(s[Len(s)])

\* str(n) for an integer n
RECURSIVE NatToChars(_)
NatToChars(n) == IF n < 10 THEN <<Digits[n + 1]>> ELSE NatToChars(n \div 10) \o <<Digits[(n % 10) + 1]>>
IntToChars(n) == IF n < 0 THEN <<"-">> \o NatToChars(-n) ELSE NatToChars(n)

\* float(s) for a text s: white space around it is stripped, then an optional sign
\* and decimal digits with at most one point and at least one digit; anything else
\* is a ValueError.  (Exponents, underscores, "inf" and "nan" are outside the
\* alphabet the model draws numeric strings from.)  The result is the rational
\* num/den.
ParseFloat(s) ==
    LET body == Strip(s)
        signed == body # <<>> /\ Head(body) \in {"-", "+"}
        mag == IF signed THEN Tail(body) ELSE body
        dots == {i \in 1..Len(mag) : mag[i] = "."}
        digs == {i \in 1..Len(mag) : IsDigit(mag[i])}
        wellFormed ==
            /\ Cardinality(dots) <= 1
            /\ digs # {}
            /\ digs \cup dots = 1..Len(mag)
        dot == IF dots = {} THEN Len(mag) + 1 ELSE CHOOSE i \in dots : TRUE
        whole == SubSeq(mag, 1, dot - 1)
        fracPart == SubSeq(mag, dot + 1, Len(mag))
        n == DigitsVal(whole \o fracPart)
    IN  IF ~wellFormed THEN Raise("ValueError")
        ELSE Ok(PyFloat(IF signed /\ Head(body) = "-" THEN -n ELSE n, Pow10(Len(fracPart))))

\* int(x) of a rational: truncation towards zero
Trunc(num, den) == IF num >= 0 THEN num \div den ELSE -((-num) \div den)

-----------------------------------------------------------------------------
(* VideoFilter: configuration and word lists *)

\* the characters of the four Unicode ranges of self.japanese_patterns that the model uses
Hiragana ==
    {"hi_ni", "hi_ho", "hi_n", "hi_no", "hi_ha", "hi_i", "hi_de", "hi_su", "hi_ne",
     "hi_shi"}
Katakana ==
    {"ka_ni", "ka_xtsu", "ka_po", "ka_n", "ka_a", "ka_me", "ka_ma", "ka_ga", "ka_ra",
     "ka_chouon", "ka_ko", "ka_bi", "ka_gu", "ka_ru"}
Kanji ==
    {"kj_nichi", "kj_hon", "kj_tou", "kj_kyou", "kj_dai", "kj_saka", "kj_to", "kj_shibu",
     "kj_tani", "kj_shin", "kj_juku", "kj_hara", "kj_aki", "kj_ha", "kj_su", "kj_shi",
     "kj_i", "kj_sake", "kj_ya", "kj_den", "kj_sha", "kj_chi", "kj_ka", "kj_tetsu",
     "kj_eki", "kj_jin", "kj_ja", "kj_tera", "kj_sakura", "kj_kou", "kj_ima", "kj_atsu",
     "kj_bi", "kj_mi", "kj_ryou", "kj_ri"}
HalfwidthKatakana ==
    {"hw_a"}

japan_keywords ==
    <<<<"kj_nichi","kj_hon">>, <<"hi_ni","hi_ho","hi_n">>,
      <<"ka_ni","ka_xtsu","ka_po","ka_n">>, <<"kj_tou","kj_kyou">>,
      <<"kj_dai","kj_saka">>, <<"kj_kyou","kj_to">>, <<"kj_shibu","kj_tani">>,
      <<"kj_shin","kj_juku">>, <<"kj_hara","kj_juku">>, <<"kj_aki","kj_ha","kj_hara">>,
      <<"ka_a","ka_ni","ka_me">>, <<"ka_ma","ka_n","ka_ga">>,
      <<"ka_ra","ka_chouon","ka_me","ka_n">>, <<"kj_su","kj_shi">>,
      <<"kj_i","kj_sake","kj_ya">>, <<"ka_ko","ka_n","ka_bi","ka_ni">>,
      <<"kj_den","kj_sha">>, <<"J","R">>, <<"kj_chi","kj_ka","kj_tetsu">>, <<"kj_eki">>,
      <<"kj_jin","kj_ja">>, <<"kj_tera">>, <<"kj_sakura">>, <<"kj_kou","kj_ha">>>>

exclude_keywords ==
    <<<<"t","o","u","r","i","s","t">>, <<"t","r","a","v","e","l">>,
      <<"v","i","s","i","t">>, <<"v","a","c","a","t","i","o","n">>, <<"t","r","i","p">>,
      <<"f","o","r","e","i","g","n","e","r">>, <<"g","a","i","j","i","n">>,
      <<"e","n","g","l","i","s","h">>, <<"k","o","r","e","a","n">>,
      <<"c","h","i","n","e","s","e">>,
      <<"s","t","u","d","y"," ","a","b","r","o","a","d">>,
      <<"e","x","c","h","a","n","g","e"," ","s","t","u","d","e","n","t">>,
      <<"b","a","c","k","p","a","c","k","e","r">>>>

JapaneseChars == Hiragana \cup Katakana \cup Kanji \cup HalfwidthKatakana

\* config.get(key, default) of VideoFilter.__init__
min_views(cfg) == GetDefault(cfg, "min_views", 500000)
time_range_hours(cfg) == GetDefault(cfg, "time_range_hours", 24)
exclude_verified(cfg) == GetDefault(cfg, "exclude_verified", TRUE)
target_languages(cfg) == GetDefault(cfg, "languages", {"ja", "jp"})
target_region(cfg) == GetDefault(cfg, "target_region", <<"J", "P">>)

-----------------------------------------------------------------------------
(* VideoFilter: the time stage *)

\* datetime.strptime(s, fmt) succeeds for a date-time string of exactly the
\* format's shape; the four formats of time_formats, in order
time_formats ==
    << [sep |-> " ", frac |-> FALSE, zone |-> ""],
       [sep |-> "T", frac |-> FALSE, zone |-> ""],
       [sep |-> "T", frac |-> FALSE, zone |-> "Z"],
       [sep |-> " ", frac |-> TRUE,  zone |-> ""] >>

StrptimeMatches(x, fmt) ==
    /\ IsDateStr(x)
    /\ x.dt.sep = fmt.sep
    /\ x.dt.frac = fmt.frac
    /\ x.dt.zone = fmt.zone

\* datetime.isoformat() of a naive datetime: 'T' separator, the fraction written
\* only when the microsecond is not 0, no zone
IsoFormat(clock) == PyDateStr(clock.at, "T", clock.micro, "")

\* float(x) for a str x
FloatOfStr(x) == IF IsText(x) THEN ParseFloat(x.s) ELSE Raise("ValueError")

\* the instant create_time stands for (post_time), as a rational number of seconds
ParsePostTime(create_time) ==
    IF IsStr(create_time) THEN
        IF \E i \in 1..Len(time_formats) : StrptimeMatches(create_time, time_formats[i])
        THEN Ok(PyFloat(create_time.dt.at, 1))
        ELSE FloatOfStr(create_time)
    ELSE IF create_time.t = "int" THEN Ok(PyFloat(create_time.v, 1))
    ELSE IF create_time.t = "bool" THEN Ok(PyFloat(IF create_time.v THEN 1 ELSE 0, 1))
    ELSE IF create_time.t = "float" THEN Ok(create_time)
    ELSE Raise("unsupported")

\* a variant of the comparison that excludes the boundary (time_diff < range)
WithinRangeStrict(clock, post, hours) ==
    clock.at * post.den - post.num < hours * 3600 * post.den

\* time_diff <= timedelta(hours=self.time_range_hours)
WithinRange(clock, post, hours) ==
    clock.at * post.den - post.num <= hours * 3600 * post.den

_check_time_filter(video, cfg, clock) ==
    LET create_time == PyOr(Get(video, "create_time"), Get(video, "createTime"))
        post == ParsePostTime(create_time)
    IN  IF ~Truthy(create_time) THEN Ok(FALSE)
        ELSE IF Raised(post) THEN Ok(FALSE)
        ELSE Ok(WithinRange(clock, post.v, time_range_hours(cfg)))

-----------------------------------------------------------------------------
(* VideoFilter: the views and verified stages *)

\* int(x) for a Python value x
PyIntOf(x) ==
    CASE x.t = "int" -> Ok(x.v)
      [] x.t = "bool" -> Ok(IF x.v THEN 1 ELSE 0)
      [] x.t = "float" -> Ok(Trunc(x.num, x.den))
      [] x.t = "str" ->
            \* int(s) takes an optional sign and digits only, white space stripped
            LET r == IF IsText(x) THEN ParseFloat(x.s) ELSE Raise("ValueError")
            IN  IF Raised(r) \/ (IsText(x) /\ IsIn(x.s, ".")) THEN Raise("ValueError")
                ELSE Ok(r.v.num)
      [] OTHER -> Raise("TypeError")

multipliers == << <<"K", 1000>>, <<"M", 1000000>>, <<"B", 1000000000>> >>

\* _parse_count_string on a str: the caller passes nothing else
_parse_count_string(count_str) ==
    LET cleaned == RemoveChar(RemoveChar(Upper(count_str), ","), " ")
        hits == {i \in 1..Len(multipliers) : EndsWith(cleaned, <<multipliers[i][1]>>)}
        first == CHOOSE i \in hits : \A j \in hits : i <= j
        number == ParseFloat(SubSeq(cleaned, 1, Len(cleaned) - 1))
        plain == ParseFloat(cleaned)
    IN  IF hits # {} THEN
            IF Raised(number) THEN number
            ELSE Ok(Trunc(number.v.num * multipliers[first][2], number.v.den))
        ELSE IF Raised(plain) THEN plain
        ELSE Ok(Trunc(plain.v.num, plain.v.den))

\* a variant of the stage without its except clause: the exception of the
\* conversion leaves the stage
_check_views_filter_uncaught(video, cfg) ==
    LET direct == PyOr(Get(video, "view_count"), Get(video, "viewCount"))
        stats == GetDefault(video, "stats", PyDict(EmptyDict))
        nested == ValueGet(stats, "playCount")
        view_count == IF Truthy(direct) THEN direct ELSE nested.v
        parsed ==
            IF IsStr(view_count)
            THEN (IF IsText(view_count) THEN _parse_count_string(view_count.s)
                  ELSE Raise("ValueError"))
            ELSE PyIntOf(view_count)
    IN  IF ~Truthy(direct) /\ Raised(nested) THEN nested
        ELSE IF view_count.t = "none" THEN Ok(FALSE)
        ELSE IF Raised(parsed) THEN parsed
        ELSE Ok(parsed.v >= min_views(cfg))

\* only ValueError and TypeError are caught by the stage
_check_views_filter(video, cfg) ==
    LET direct == PyOr(Get(video, "view_count"), Get(video, "viewCount"))
        stats == GetDefault(video, "stats", PyDict(EmptyDict))
        nested == ValueGet(stats, "playCount")
        view_count == IF Truthy(direct) THEN direct ELSE nested.v
        parsed ==
            IF IsStr(view_count)
            THEN (IF IsText(view_count) THEN _parse_count_string(view_count.s)
                  ELSE Raise("ValueError"))
            ELSE PyIntOf(view_count)
    IN  IF ~Truthy(direct) /\ Raised(nested) THEN nested
        ELSE IF view_count.t = "none" THEN Ok(FALSE)
        ELSE IF Raised(parsed) THEN
            (IF parsed.exc \in {"ValueError", "TypeError"} THEN Ok(FALSE) ELSE parsed)
        ELSE Ok(parsed.v >= min_views(cfg))

\* a variant of the stage that reads the record's own is_verified only
_check_verified_direct_only(video, cfg) ==
    IF ~exclude_verified(cfg) THEN Ok(TRUE)
    ELSE Ok(~Truthy(Get(video, "is_verified")))

\* no exception is caught by the stage
_check_verified_filter(video, cfg) ==
    LET direct == Get(video, "is_verified")
        author == ValueGet(GetDefault(video, "author", PyDict(EmptyDict)), "verified")
        authorMeta == ValueGet(GetDefault(video, "authorMeta", PyDict(EmptyDict)), "verified")
    IN  IF ~exclude_verified(cfg) THEN Ok(TRUE)
        ELSE IF Truthy(direct) THEN Ok(FALSE)
        ELSE IF Raised(author) THEN author
        ELSE IF Truthy(author.v) THEN Ok(FALSE)
        ELSE IF Raised(authorMeta) THEN authorMeta
        ELSE Ok(~Truthy(authorMeta.v))

-----------------------------------------------------------------------------
(* VideoFilter: text extraction and the scores *)

\* the parts of text_parts, in order, or the exception raised on the way
_extract_text_content(video) ==
    LET description == PyOr(Get(video, "description"), PyOr(Get(video, "desc"), PyStr(<<>>)))
        hashtags == PyOr(Get(video, "hashtags"), PyOr(Get(video, "challenges"), PyList(<<>>)))
        tagParts ==
            IF hashtags.t = "list" THEN hashtags.items
            ELSE IF hashtags.t = "str" THEN <<hashtags>>
            ELSE <<>>
        music == ValueGet(GetDefault(video, "music", PyDict(EmptyDict)), "title")
        music_title ==
            IF Truthy(Get(video, "music_title")) THEN Get(video, "music_title")
            ELSE PyOr(music.v, PyStr(<<>>))
        author == ValueGet(GetDefault(video, "author", PyDict(EmptyDict)), "nickname")
        author_nickname ==
            IF Truthy(Get(video, "author_nickname")) THEN Get(video, "author_nickname")
            ELSE PyOr(author.v, PyStr(<<>>))
        text_parts == <<description>> \o tagParts \o <<music_title, author_nickname>>
    IN  IF ~Truthy(Get(video, "music_title")) /\ Raised(music) THEN music
        ELSE IF ~Truthy(Get(video, "author_nickname")) /\ Raised(author) THEN author
        ELSE IF \E i \in 1..Len(text_parts) : ~IsText(text_parts[i]) THEN Raise("TypeError")
        ELSE Ok(Lower(JoinSpace([i \in 1..Len(text_parts) |-> text_parts[i].s])))

\* japanese_chars / total_chars as the rational num/den
_calculate_japanese_score(text) ==
    IF text = <<>> THEN PyFloat(0, 1)
    ELSE PyFloat(Cardinality({i \in 1..Len(text) : text[i] \in JapaneseChars}), Len(text))

\* japan_word_count / len(words) as the rational num/den
_calculate_keyword_score(text) ==
    LET japan_word_count ==
            Cardinality({k \in 1..Len(japan_keywords) : Contains(text, Lower(japan_keywords[k]))})
    IN  IF text = <<>> \/ TokenCount(text) = 0 THEN PyFloat(0, 1)
        ELSE PyFloat(japan_word_count, TokenCount(text))

\* what langdetect's detect(text) may do: return a language code, raise
\* LangDetectException, or raise something else
DetectLanguages == {"ja", "en"}
DetectOutcomes == DetectLanguages \cup {"LangDetectError", "OtherError"}

\* detected is the outcome of detect(text), consulted only for a long enough text
_detect_language(text, detected) ==
    IF Len(Strip(text)) < 10 THEN Ok("unknown")
    ELSE IF detected = "LangDetectError" THEN Ok("unknown")
    ELSE IF detected \in DetectLanguages THEN Ok(detected)
    ELSE Raise(detected)

\* a > b for rationals with positive denominators
RatGt(a, bNum, bDen) == a.num * bDen > bNum * a.den

-----------------------------------------------------------------------------
(* VideoFilter: the language, region and quality stages *)

\* every exception is caught by the stage and fails it
\* a variant of the stage whose except clause passes the record
_check_language_filter_open(video, detected) ==
    LET text_content == _extract_text_content(video)
        japanese_score == _calculate_japanese_score(text_content.v)
        detected_lang == _detect_language(text_content.v, detected)
        keyword_score == _calculate_keyword_score(text_content.v)
    IN  IF Raised(text_content) THEN Ok(TRUE)
        ELSE IF text_content.v = <<>> THEN Ok(FALSE)
        ELSE IF Raised(detected_lang) THEN Ok(TRUE)
        ELSE Ok(\/ RatGt(japanese_score, 3, 10)
                \/ detected_lang.v \in {"ja", "jp"}
                \/ RatGt(keyword_score, 2, 10))

_check_language_filter(video, detected) ==
    LET text_content == _extract_text_content(video)
        japanese_score == _calculate_japanese_score(text_content.v)
        detected_lang == _detect_language(text_content.v, detected)
        keyword_score == _calculate_keyword_score(text_content.v)
    IN  IF Raised(text_content) THEN Ok(FALSE)
        ELSE IF text_content.v = <<>> THEN Ok(FALSE)
        ELSE IF Raised(detected_lang) THEN Ok(FALSE)
        ELSE Ok(\/ RatGt(japanese_score, 3, 10)
                \/ detected_lang.v \in {"ja", "jp"}
                \/ RatGt(keyword_score, 2, 10))

\* follower_count < 100000: a TypeError unless follower_count is a number
\* a variant of the comparison that takes the limit itself as below it
FollowerBelowInclusive(follower_count, limit) ==
    CASE follower_count.t = "int" -> Ok(follower_count.v <= limit)
      [] follower_count.t = "bool" -> Ok(TRUE)
      [] follower_count.t = "float" -> Ok(follower_count.num <= limit * follower_count.den)
      [] OTHER -> Raise("TypeError")

FollowerBelow(follower_count, limit) ==
    CASE follower_count.t = "int" -> Ok(follower_count.v < limit)
      [] follower_count.t = "bool" -> Ok(TRUE)
      [] follower_count.t = "float" -> Ok(follower_count.num < limit * follower_count.den)
      [] OTHER -> Raise("TypeError")

\* every exception is caught and passes.  authenticity_score > 0.4 is decided on
\* the exact rationals: 0.4*js + 0.3*ks + (0.3 or 0.1) > 0.4, times 10*js.den*ks.den
\* a variant of the authenticity check whose except clause fails the record
_is_authentic_japanese_content_closed(video) ==
    LET text_content == _extract_text_content(video)
        js == _calculate_japanese_score(text_content.v)
        ks == _calculate_keyword_score(text_content.v)
        author == ValueGet(GetDefault(video, "author", PyDict(EmptyDict)), "followerCount")
        follower_count ==
            IF Truthy(Get(video, "follower_count")) THEN Get(video, "follower_count")
            ELSE PyOr(author.v, PyInt(0))
        is_regular_user == FollowerBelow(follower_count, 100000)
        bonus == IF is_regular_user.v THEN 3 ELSE 1
    IN  IF Raised(text_content) THEN Ok(FALSE)
        ELSE IF ~Truthy(Get(video, "follower_count")) /\ Raised(author) THEN Ok(FALSE)
        ELSE IF Raised(is_regular_user) THEN Ok(FALSE)
        ELSE Ok(4 * js.num * ks.den + 3 * ks.num * js.den + bonus * js.den * ks.den
                    > 4 * js.den * ks.den)

_is_authentic_japanese_content(video) ==
    LET text_content == _extract_text_content(video)
        js == _calculate_japanese_score(text_content.v)
        ks == _calculate_keyword_score(text_content.v)
        author == ValueGet(GetDefault(video, "author", PyDict(EmptyDict)), "followerCount")
        follower_count ==
            IF Truthy(Get(video, "follower_count")) THEN Get(video, "follower_count")
            ELSE PyOr(author.v, PyInt(0))
        is_regular_user == FollowerBelow(follower_count, 100000)
        bonus == IF is_regular_user.v THEN 3 ELSE 1
    IN  IF Raised(text_content) THEN Ok(TRUE)
        ELSE IF ~Truthy(Get(video, "follower_count")) /\ Raised(author) THEN Ok(TRUE)
        ELSE IF Raised(is_regular_user) THEN Ok(TRUE)
        ELSE Ok(4 * js.num * ks.den + 3 * ks.num * js.den + bonus * js.den * ks.den
                    > 4 * js.den * ks.den)

\* every exception is caught by the stage and passes it
_check_region_filter(video, cfg) ==
    LET region == PyOr(Get(video, "region"), PyOr(Get(video, "country"), PyStr(<<>>)))
        text_content == _extract_text_content(video)
    IN  IF ~IsStr(region) THEN Ok(TRUE)
        ELSE IF IsText(region) /\ Upper(region.s) = target_region(cfg) THEN Ok(TRUE)
        ELSE IF Raised(text_content) THEN Ok(TRUE)
        ELSE IF \E k \in 1..Len(exclude_keywords) :
                    Contains(text_content.v, Lower(exclude_keywords[k])) THEN Ok(FALSE)
        ELSE _is_authentic_japanese_content(video)

\* len(x) for a Python value x
PyLen(x) ==
    CASE x.t = "str" -> Ok(IF IsText(x) THEN Len(x.s) ELSE 19)
      [] x.t = "list" -> Ok(Len(x.items))
      [] x.t = "dict" -> Ok(Cardinality(DOMAIN x.d))
      [] OTHER -> Raise("TypeError")

\* re.search(r'(.)\1{10,}', s): a character other than a line break followed by at
\* least 10 copies of itself
HasRepeat(s) ==
    \E i \in 1..Len(s) :
        /\ i + 10 <= Len(s)
        /\ s[i] # "\n"
        /\ \A j \in i..(i + 10) : s[j] = s[i]

\* re.search(r'[c]{5,}', s)
HasRun5(s, c) ==
    \E i \in 1..Len(s) : i + 4 <= Len(s) /\ \A j \in i..(i + 4) : s[j] = c

\* one of spam_patterns matches
MatchesSpam(s) ==
    \/ HasRepeat(s)
    \/ HasRun5(s, "!")
    \/ HasRun5(s, "?")
    \/ Contains(s, <<"w", "w", "w", ".">>)
    \/ Contains(s, <<"h", "t", "t", "p">>)

\* every exception is caught by the stage and passes it
_check_quality_filter(video) ==
    LET description == GetDefault(video, "description", PyStr(<<>>))
        length == PyLen(description)
        view_count == PyIntOf(GetDefault(video, "view_count", PyInt(0)))
        like_count == PyIntOf(GetDefault(video, "like_count", PyInt(0)))
        comment_count == PyIntOf(GetDefault(video, "comment_count", PyInt(0)))
    IN  IF Raised(length) THEN Ok(TRUE)
        ELSE IF length.v < 5 THEN Ok(FALSE)
        ELSE IF Raised(view_count) \/ Raised(like_count) \/ Raised(comment_count) THEN Ok(TRUE)
        ELSE IF view_count.v > 0 /\ 1000 * (like_count.v + comment_count.v) < view_count.v
            THEN Ok(FALSE)
        ELSE IF ~IsStr(description) THEN Ok(TRUE)
        ELSE Ok(~(IsText(description) /\ MatchesSpam(description.s)))

-----------------------------------------------------------------------------
(* VideoFilter: the stages in order, and the enhancer *)

\* One "if not self._check_X(video): return False, reason" of _apply_filters: r
\* is what the stage returned or raised, evaluated the stages called before it,
\* rest the remainder of the chain.  The result is (passed, reason), or the
\* exception the stage let through, with the stages called.
IfNot(r, stage, reason, evaluated, rest) ==
    IF Raised(r)
    THEN [exc |-> r.exc, passed |-> FALSE, reason |-> "", evaluated |-> Append(evaluated, stage)]
    ELSE IF ~r.v
    THEN [exc |-> "none", passed |-> FALSE, reason |-> reason,
          evaluated |-> Append(evaluated, stage)]
    ELSE rest

\* a variant of the chain that asks the views stage before the time stage
_apply_filters_views_first(video, cfg, clock, detected) ==
    IfNot(_check_views_filter(video, cfg), "views", "view_count", <<>>,
    IfNot(_check_time_filter(video, cfg, clock), "time", "time_range", <<"views">>,
    IfNot(_check_verified_filter(video, cfg), "verified", "verified_account",
          <<"views", "time">>,
    IfNot(_check_language_filter(video, detected), "language", "language",
          <<"views", "time", "verified">>,
    IfNot(_check_region_filter(video, cfg), "region", "region",
          <<"views", "time", "verified", "language">>,
    IfNot(_check_quality_filter(video), "quality", "quality",
          <<"views", "time", "verified", "language", "region">>,
          [exc |-> "none", passed |-> TRUE, reason |-> "passed",
           evaluated |-> <<"views", "time", "verified", "language", "region", "quality">>]))))))

_apply_filters(video, cfg, clock, detected) ==
    IfNot(_check_time_filter(video, cfg, clock), "time", "time_range", <<>>,
    IfNot(_check_views_filter(video, cfg), "views", "view_count", <<"time">>,
    IfNot(_check_verified_filter(video, cfg), "verified", "verified_account",
          <<"time", "views">>,
    IfNot(_check_language_filter(video, detected), "language", "language",
          <<"time", "views", "verified">>,
    IfNot(_check_region_filter(video, cfg), "region", "region",
          <<"time", "views", "verified", "language">>,
    IfNot(_check_quality_filter(video), "quality", "quality",
          <<"time", "views", "verified", "language", "region">>,
          [exc |-> "none", passed |-> TRUE, reason |-> "passed",
           evaluated |-> <<"time", "views", "verified", "language", "region", "quality">>]))))))

\* d[key] = value on a dict
Put(d, key, value) == [k \in DOMAIN d \cup {key} |-> IF k = key THEN value ELSE d[k]]

\* the text of a language code
LangText(code) ==
    CASE code = "ja" -> <<"j", "a">>
      [] code = "en" -> <<"e", "n">>
      [] OTHER -> <<"u", "n", "k", "n", "o", "w", "n">>

\* datetime.fromisoformat(s.replace('Z', '+00:00')) reads every date-time string
\* of the model (either separator, with or without fraction, no zone or Z) and
\* nothing else; datetime.fromtimestamp(x) reads a number
PostTimeForEnhance(create_time) ==
    IF IsStr(create_time) THEN
        (IF IsDateStr(create_time) THEN Ok(PyFloat(create_time.dt.at, 1)) ELSE Raise("ValueError"))
    ELSE IF create_time.t = "int" THEN Ok(PyFloat(create_time.v, 1))
    ELSE IF create_time.t = "bool" THEN Ok(PyFloat(IF create_time.v THEN 1 ELSE 0, 1))
    ELSE IF create_time.t = "float" THEN Ok(create_time)
    ELSE Raise("TypeError")

\* enhanced['hours_since_post'], set only for a truthy create_time
WithHoursSincePost(enhanced, video, clock) ==
    LET create_time == Get(video, "create_time")
        post == PostTimeForEnhance(create_time)
    IN  IF ~Truthy(create_time) THEN enhanced
        ELSE IF Raised(post) THEN Put(enhanced, "hours_since_post", PyNone)
        ELSE Put(enhanced, "hours_since_post",
                 PyFloat(clock.at * post.v.den - post.v.num, 3600 * post.v.den))

\* the body of the try block: an exception ends it, keeping the keys set so far
EnhancedCopy(video, clock, detected) ==
    LET e0 == Put(video, "filtered_at", IsoFormat(clock))
        text_content == _extract_text_content(video)
        e1 == Put(Put(e0, "japanese_score", _calculate_japanese_score(text_content.v)),
                  "keyword_score", _calculate_keyword_score(text_content.v))
        lang == _detect_language(text_content.v, detected)
        e2 == Put(e1, "detected_language", PyStr(LangText(lang.v)))
        view_count == PyIntOf(GetDefault(video, "view_count", PyInt(0)))
        like_count == PyIntOf(GetDefault(video, "like_count", PyInt(0)))
        comment_count == PyIntOf(GetDefault(video, "comment_count", PyInt(0)))
        e3 == Put(e2, "engagement_rate",
                  IF view_count.v > 0
                  THEN PyFloat(like_count.v + comment_count.v, view_count.v)
                  ELSE PyFloat(0, 1))
    IN  IF Raised(text_content) THEN e0
        ELSE IF Raised(lang) THEN e1
        ELSE IF Raised(view_count) \/ Raised(like_count) \/ Raised(comment_count) THEN e2
        ELSE WithHoursSincePost(e3, video, clock)

\* a variant of the enhancer that writes into the caller's dict (no copy)
_enhance_in_place(video, clock, detected) ==
    [video |-> EnhancedCopy(video, clock, detected),
     enhanced |-> EnhancedCopy(video, clock, detected)]

\* _enhance_video_data works on video.copy(): video is the caller's dict after the
\* call, enhanced the dict returned
_enhance_video_data(video, clock, detected) ==
    [video |-> video, enhanced |-> EnhancedCopy(video, clock, detected)]

-----------------------------------------------------------------------------
(* VideoFilter.filter_videos *)

\* the statistics of the early return for an empty list
EmptyStats == [total |-> 0, filtered |-> 0, filter_stats |-> [r \in {} |-> 0]]

\* the statistics before the loop
InitialStats(n) ==
    [total_input |-> n,
     passed_time_filter |-> 0,
     passed_views_filter |-> 0,
     passed_verified_filter |-> 0,
     passed_language_filter |-> 0,
     passed_region_filter |-> 0,
     final_output |-> 0,
     rejection_reasons |-> [r \in {} |-> 0]]

\* a variant of the count that sets the reason's counter to 1 (no increment)
AddRejectionOnce(stats, reason) ==
    [stats EXCEPT !.rejection_reasons =
        [r \in DOMAIN @ \cup {reason} |-> IF r = reason THEN 1 ELSE @[r]]]

\* rejection_reasons[reason] += 1, the key created at 0 when absent
AddRejection(stats, reason) ==
    [stats EXCEPT !.rejection_reasons =
        [r \in DOMAIN @ \cup {reason} |-> IF r \in DOMAIN @ THEN
                                              (IF r = reason THEN @[r] + 1 ELSE @[r])
                                          ELSE 1]]

\* a variant of the append that inserts at the front
PrependAccepted(list, enhanced) == <<enhanced>> \o list

\* filtered_videos.append(enhanced_video)
AppendAccepted(list, enhanced) == Append(list, enhanced)

\* a variant of the loop body without the except clause: the exception leaves
\* filter_videos
ExceptClauseRaises(video, list, stats, applied) ==
    [video |-> video, filtered_videos |-> list,
     filter_stats |-> stats,
     escaped |-> applied.exc,
     outcome |-> [kind |-> "error", reason |-> "processing_error",
                  exc |-> applied.exc, evaluated |-> applied.evaluated]]

\* The except clause of the loop body, reached when _apply_filters(video) raised:
\* the exception is logged, the record counted as processing_error, and the loop
\* goes on.  escaped is the exception that leaves the loop body.
ExceptClause(video, list, stats, applied) ==
    [video |-> video, filtered_videos |-> list,
     filter_stats |-> AddRejection(stats, "processing_error"),
     escaped |-> "none",
     outcome |-> [kind |-> "error", reason |-> "processing_error",
                  exc |-> applied.exc, evaluated |-> applied.evaluated]]

\* The try block of the loop body when _apply_filters(video) returned.  enh is
\* what _enhance_video_data(video) does when it is called.
TryBlock(video, list, stats, applied, enh) ==
    IF applied.passed THEN
        [video |-> enh.video, filtered_videos |-> AppendAccepted(list, enh.enhanced),
         filter_stats |-> [stats EXCEPT !.final_output = @ + 1],
         escaped |-> "none",
         outcome |-> [kind |-> "accepted", reason |-> applied.reason,
                      exc |-> "none", evaluated |-> applied.evaluated]]
    ELSE
        [video |-> video, filtered_videos |-> list,
         filter_stats |-> AddRejection(stats, applied.reason),
         escaped |-> "none",
         outcome |-> [kind |-> "rejected", reason |-> applied.reason,
                      exc |-> "none", evaluated |-> applied.evaluated]]

\* One iteration of the for loop on video.  applied is what _apply_filters(video)
\* did.
LoopBody(video, list, stats, applied, enh) ==
    IF applied.exc # "none"
    THEN ExceptClause(video, list, stats, applied)
    ELSE TryBlock(video, list, stats, applied, enh)

\* filter_stats["filter_rate"]: final_output / total_input * 100 as a rational
WithFilterRate(stats) ==
    [k \in DOMAIN stats \cup {"filter_rate"} |->
        IF k = "filter_rate"
        THEN (IF stats.total_input > 0
              THEN PyFloat(stats.final_output * 100, stats.total_input)
              ELSE PyFloat(0, 1))
        ELSE stats[k]]

\* filter_videos is called: the early return for an empty list, or the set-up of
\* the loop
FilterVideosBegin ==
    /\ pc = "ready"
    /\ IF videos = <<>>
       THEN /\ filter_stats' = EmptyStats
            /\ pc' = "done"
       ELSE /\ filter_stats' = InitialStats(Len(videos))
            /\ pc' = "loop"
    /\ filtered_videos' = <<>>
    /\ idx' = 1
    /\ outcomes' = <<>>
    /\ UNCHANGED <<config, now, videos, run, probe, others>>

\* the loop body's effect on the state of filter_videos
StoreBody(body) ==
    /\ videos' = [videos EXCEPT ![idx] = body.video]
    /\ filtered_videos' = body.filtered_videos
    /\ filter_stats' = body.filter_stats
    /\ outcomes' = Append(outcomes, body.outcome)
    /\ pc' = IF body.escaped # "none" THEN "raised" ELSE "loop"

\* the loop body once _apply_filters has answered; redetected is what detect()
\* answers to the enhancer
BodyAfterApply(applied) ==
    \E redetected \in DetectOutcomes :
        StoreBody(LoopBody(videos[idx], filtered_videos, filter_stats, applied,
                           _enhance_video_data(videos[idx], now, redetected)))

\* one iteration of the for loop; detected is what detect() answers to the
\* language stage
FilterVideosStep ==
    /\ pc = "loop"
    /\ idx <= Len(videos)
    /\ \E detected \in DetectOutcomes :
         BodyAfterApply(_apply_filters(videos[idx], config, now, detected))
    /\ idx' = idx + 1
    /\ UNCHANGED <<config, now, run, probe, others>>

\* after the loop: the filter rate, and the return
FilterVideosReturn ==
    /\ pc = "loop"
    /\ idx > Len(videos)
    /\ filter_stats' = WithFilterRate(filter_stats)
    /\ pc' = "done"
    /\ UNCHANGED <<config, now, videos, idx, filtered_videos, outcomes, run, probe, others>>

-----------------------------------------------------------------------------
(* Inputs: the records of test_video_filter, and a catalogue of records around   *)
(* them that differ in key names, value representations and malformed fields     *)

\* the clock at the start of the model, in seconds
Now0 == 200000

Desc001 ==
    <<"kj_ima","kj_nichi","hi_no","kj_tou","kj_kyou","hi_ha","kj_atsu","hi_i","hi_de","hi_su","hi_ne","fw_excl","emoji_sun"," ","#","kj_tou","kj_kyou"," ","#","kj_atsu","hi_i"," ","#","kj_nichi","kj_hon">>
Desc002 ==
    <<"A","m","a","z","i","n","g"," ","t","r","i","p"," ","t","o"," ","T","o","k","y","o","!"," ","#","t","r","a","v","e","l"," ","#","t","o","u","r","i","s","t"," ","#","j","a","p","a","n">>
Desc003 ==
    <<"ka_ra","ka_chouon","ka_me","ka_n","kj_bi","kj_mi","hi_shi","hi_i","fw_excl"," ","#","ka_ra","ka_chouon","ka_me","ka_n"," ","#","ka_gu","ka_ru","ka_me"," ","#","kj_nichi","kj_hon","kj_ryou","kj_ri">>

\* config of test_video_filter
TestConfig ==
    [min_views |-> 500000, time_range_hours |-> 24, exclude_verified |-> TRUE,
     languages |-> {"ja", "jp"}, target_region |-> <<"J", "P">>]

\* test_videos of test_video_filter, built at the instant clock
TestVideo001(clock) ==
    [video_id |-> PyStr(<<"t","e","s","t","_","0","0","1">>),
     description |-> PyStr(Desc001),
     view_count |-> PyInt(1000000), like_count |-> PyInt(50000), comment_count |-> PyInt(1000),
     create_time |-> IsoFormat(clock),
     is_verified |-> PyBool(FALSE),
     author |-> PyDict([followerCount |-> PyInt(5000)])]

TestVideo002(clock) ==
    [video_id |-> PyStr(<<"t","e","s","t","_","0","0","2">>),
     description |-> PyStr(Desc002),
     view_count |-> PyInt(800000), like_count |-> PyInt(40000), comment_count |-> PyInt(800),
     create_time |-> IsoFormat([clock EXCEPT !.at = @ - 30 * 3600]),
     is_verified |-> PyBool(FALSE),
     author |-> PyDict([followerCount |-> PyInt(3000)])]

TestVideo003(clock) ==
    [video_id |-> PyStr(<<"t","e","s","t","_","0","0","3">>),
     description |-> PyStr(Desc003),
     view_count |-> PyInt(300000), like_count |-> PyInt(15000), comment_count |-> PyInt(300),
     create_time |-> IsoFormat(clock),
     is_verified |-> PyBool(TRUE),
     author |-> PyDict([followerCount |-> PyInt(200000)])]

TestVideos(clock) == <<TestVideo001(clock), TestVideo002(clock), TestVideo003(clock)>>

\* d without key
Without(d, key) == [k \in DOMAIN d \ {key} |-> d[k]]

\* test_001 with its creation time written in the second of time_formats
GoodVideo(clock) ==
    Put(TestVideo001(clock), "create_time", PyDateStr(clock.at, "T", FALSE, ""))

\* the view count as a suffixed string
SuffixedViews(clock) == Put(GoodVideo(clock), "view_count", PyStr(<<"1", ".", "2", "M">>))

\* no view count, and stats that is no dict
BadStats(clock) == Put(Without(GoodVideo(clock), "view_count"), "stats", PyInt(5))

\* records for the batches of several records: accepted, accepted with a view
\* count the enhancer cannot convert, rejected, and raising in a stage
CoreCatalogue(clock) ==
    {GoodVideo(clock), SuffixedViews(clock), TestVideo003(clock), BadStats(clock)}

Catalogue(clock) ==
    LET good == GoodVideo(clock)
    IN  CoreCatalogue(clock) \cup
        { TestVideo001(clock),
          TestVideo002(clock),
          \* camel-case keys, the creation time as epoch seconds
          Put(Put(Without(Without(good, "create_time"), "view_count"),
                  "createTime", PyInt(clock.at - 3600)),
              "viewCount", PyInt(800000)),
          \* the creation time as a numeric string of epoch seconds
          Put(good, "create_time", PyStr(IntToChars(clock.at - 7200))),
          \* no creation time
          Without(good, "create_time"),
          \* a view count that is no number
          Put(good, "view_count", PyStr(<<"a", "b", "c">>)),
          \* an author that is no dict, and no is_verified
          Put(Without(good, "is_verified"), "author", PyStr(<<"b", "o", "b">>)),
          \* verified under the author sub-object
          Put(Without(good, "is_verified"), "author",
              PyDict([verified |-> PyBool(TRUE), followerCount |-> PyInt(5000)])),
          \* English text
          Put(good, "description", PyStr(<<"H","e","l","l","o"," ","w","o","r","l","d"," ","f","r","o","m"," ","m","e">>)),
          \* Japanese text with an exclusion keyword
          Put(good, "description", PyStr(Desc001 \o <<" ","#","t","r","a","v","e","l">>)),
          \* a description shorter than 5 characters
          Put(good, "description", PyStr(<<"kj_nichi", "kj_hon">>)) }

\* all sequences over S of length at most n
RECURSIVE SeqsUpTo(_, _)
SeqsUpTo(S, n) ==
    IF n = 0 THEN {<<>>}
    ELSE LET shorter == SeqsUpTo(S, n - 1)
         IN  shorter \cup {Append(q, x) : q \in shorter, x \in S}

\* the configurations: that of the test, and one that relies on the defaults
Configs == {TestConfig, [exclude_verified |-> FALSE]}

NoRun == [phase |-> "none"]
NoProbe == [fn |-> "none"]
NoJob == [phase |-> "none"]
NoSheet == [phase |-> "none"]
NoSystem == [phase |-> "none"]

\* the components around the filtering engine are not in use
OthersIdle == job = NoJob /\ sheet = NoSheet /\ system = NoSystem

\* the filtering engine and the collection run are not in use
FilterIdle ==
    /\ config = TestConfig
    /\ now = [at |-> Now0, micro |-> TRUE]
    /\ videos = <<>>
    /\ pc = "idle"
    /\ idx = 1
    /\ filtered_videos = <<>>
    /\ filter_stats = [r \in {} |-> 0]
    /\ outcomes = <<>>
    /\ run = NoRun
    /\ probe = NoProbe

filterVars ==
    <<config, now, videos, pc, idx, filtered_videos, filter_stats, outcomes, run, probe>>

\* a call of filter_videos on a batch
Init ==
    /\ config \in Configs
    /\ now \in [at : {Now0}, micro : BOOLEAN]
    /\ videos \in SeqsUpTo(CoreCatalogue(now), MaxBatch)
                    \cup {<<v>> : v \in Catalogue(now)}
                    \cup {TestVideos(now)}
    /\ pc = "ready"
    /\ idx = 1
    /\ filtered_videos = <<>>
    /\ filter_stats = [r \in {} |-> 0]
    /\ outcomes = <<>>
    /\ run = NoRun
    /\ probe = NoProbe
    /\ OthersIdle

Next ==
    \/ FilterVideosBegin
    \/ FilterVideosStep
    \/ FilterVideosReturn

Spec == Init /\ [][Next]_vars

-----------------------------------------------------------------------------
(* TikTokBrightDataSystem.collect_viral_videos (src/main.py) *)

\* video.get('video_id') or video.get('id') or video.get('aweme_id')
VideoId(video) == PyOr(Get(video, "video_id"), PyOr(Get(video, "id"), Get(video, "aweme_id")))

\* a variant of the loop in which a later record of an id takes the place of the
\* record kept for it
RECURSIVE RemoveFromKeepsLast(_, _, _, _)
RemoveFromKeepsLast(list, k, seen, unique) ==
    IF k > Len(list) THEN unique
    ELSE IF Truthy(VideoId(list[k])) /\ VideoId(list[k]) \notin seen
         THEN RemoveFromKeepsLast(list, k + 1, seen \cup {VideoId(list[k])},
                                  Append(unique, list[k]))
    ELSE IF Truthy(VideoId(list[k]))
         THEN RemoveFromKeepsLast(list, k + 1, seen,
                  [i \in DOMAIN unique |->
                      IF VideoId(unique[i]) = VideoId(list[k]) THEN list[k] ELSE unique[i]])
         ELSE RemoveFromKeepsLast(list, k + 1, seen, unique)

\* the for loop of _remove_duplicates from its k-th record on; seen is a set, as in
\* the code, and unique the list built so far
RECURSIVE RemoveFrom(_, _, _, _)
RemoveFrom(list, k, seen, unique) ==
    IF k > Len(list) THEN unique
    ELSE IF Truthy(VideoId(list[k])) /\ VideoId(list[k]) \notin seen
         THEN RemoveFrom(list, k + 1, seen \cup {VideoId(list[k])}, Append(unique, list[k]))
         ELSE RemoveFrom(list, k + 1, seen, unique)

_remove_duplicates(list) == RemoveFrom(list, 1, {}, <<>>)

\* discover_videos + hashtag_videos, then the removal of duplicates
_collect_hybrid(discover_videos, hashtag_videos) ==
    _remove_duplicates(discover_videos \o hashtag_videos)

Methods == {"discover", "hashtags", "hybrid"}

\* raw_videos of collect_viral_videos, from what the source client returns
RawVideos(method, discover_videos, hashtag_videos) ==
    CASE method = "discover" -> discover_videos
      [] method = "hashtags" -> hashtag_videos
      [] method = "hybrid" -> _collect_hybrid(discover_videos, hashtag_videos)

\* collect_viral_videos up to its call of filter_videos
CollectViralVideos ==
    /\ run.phase = "start"
    /\ LET raw_videos == RawVideos(run.method, run.discover_videos, run.hashtag_videos)
       IN  /\ run' = [phase |-> "filtering", method |-> run.method,
                      discover_videos |-> run.discover_videos,
                      hashtag_videos |-> run.hashtag_videos,
                      raw_videos |-> raw_videos]
           /\ videos' = raw_videos
    /\ pc' = "ready"
    /\ UNCHANGED <<config, now, idx, filtered_videos, filter_stats, outcomes, probe, others>>

\* collect_viral_videos after filter_videos has returned: the result
CollectReturn ==
    /\ run.phase = "filtering"
    /\ pc = "done"
    /\ run' = [phase |-> "returned", method |-> run.method,
               discover_videos |-> run.discover_videos,
               hashtag_videos |-> run.hashtag_videos,
               raw_videos |-> run.raw_videos,
               result |-> [collection_method |-> run.method,
                           raw_count |-> Len(run.raw_videos),
                           filtered_count |-> Len(filtered_videos),
                           filter_stats |-> filter_stats,
                           videos |-> filtered_videos]]
    /\ UNCHANGED <<config, now, videos, pc, idx, filtered_videos, filter_stats, outcomes, probe, others>>

\* records the source client returns: a short Japanese description (too short for
\* detect() to be consulted), with an id under video_id, under id, or without id,
\* and one below the view threshold
ShortDesc ==
    <<"ka_ra", "ka_chouon", "ka_me", "ka_n", "kj_bi", "kj_mi", "hi_shi", "hi_i">>

FetchedVideo(clock) ==
    [video_id |-> PyStr(<<"a">>),
     description |-> PyStr(ShortDesc),
     view_count |-> PyInt(1000000), like_count |-> PyInt(50000), comment_count |-> PyInt(1000),
     create_time |-> PyDateStr(clock.at - 3600, " ", FALSE, "")]

FetchCatalogue(clock) ==
    { FetchedVideo(clock),
      Put(Without(FetchedVideo(clock), "video_id"), "id", PyStr(<<"b">>)),
      Without(FetchedVideo(clock), "video_id"),
      Put(Put(FetchedVideo(clock), "video_id", PyStr(<<"c">>)), "view_count", PyInt(300000)) }

\* a collection run: the method, and what the two source client calls return (a
\* call that the method does not make returns nothing)
InitCollect ==
    /\ config = TestConfig
    /\ now = [at |-> Now0, micro |-> TRUE]
    /\ \E method \in Methods :
       \E d \in (IF method = "hashtags" THEN {<<>>} ELSE SeqsUpTo(FetchCatalogue(now), MaxFetch)) :
       \E h \in (IF method = "discover" THEN {<<>>} ELSE SeqsUpTo(FetchCatalogue(now), MaxFetch)) :
          run = [phase |-> "start", method |-> method, discover_videos |-> d, hashtag_videos |-> h]
    /\ videos = <<>>
    /\ pc = "idle"
    /\ idx = 1
    /\ filtered_videos = <<>>
    /\ filter_stats = [r \in {} |-> 0]
    /\ outcomes = <<>>
    /\ probe = NoProbe
    /\ OthersIdle

NextCollect ==
    \/ CollectViralVideos
    \/ FilterVideosBegin
    \/ FilterVideosStep
    \/ FilterVideosReturn
    \/ CollectReturn

SpecCollect == InitCollect /\ [][NextCollect]_vars

-----------------------------------------------------------------------------
(* The time stage applied to one record *)

\* ages, in seconds, of the creation times drawn: an hour ahead, now, around one
\* hour, around 24 hours, 30 hours
ProbeAges == {-3600, 0, 3600, 3601, 86400, 86401, 108000}

\* representations of the instant at: date-time strings of every shape, epoch
\* seconds as int, as float, and as numeric strings without and with a fraction
TimeValues(at) ==
    {PyDateStr(at, sep, frac, zone) : sep \in {" ", "T"}, frac \in BOOLEAN, zone \in {"", "Z"}}
    \cup {PyInt(at), PyFloat(10 * at + 5, 10), PyStr(IntToChars(at)),
          PyStr(IntToChars(at) \o <<".", "5">>)}

\* values that stand for no instant
NoTimeValues ==
    {PyNone, PyStr(<<>>), PyStr(<<"n", "o", "w">>), PyStr(<<"1", "2", ":", "0", "0">>),
     PyInt(0), PyBool(TRUE), PyList(<<>>), PyDict([seconds |-> PyInt(5)])}

ProbeTimeValues(clock) ==
    UNION {TimeValues(clock.at - age) : age \in ProbeAges} \cup NoTimeValues

\* records that differ from an accepted one in their creation time only: under
\* create_time, under createTime, under createTime behind an empty create_time,
\* or without any
ProbeVideos(clock) ==
    LET base == Without(GoodVideo(clock), "create_time")
    IN  {base}
        \cup {Put(base, "create_time", x) : x \in ProbeTimeValues(clock)}
        \cup {Put(base, "createTime", x) : x \in ProbeTimeValues(clock)}
        \cup {Put(Put(base, "create_time", PyStr(<<>>)), "createTime", x) :
                  x \in TimeValues(clock.at)}

ProbeConfigs == {TestConfig, [time_range_hours |-> 1]}

InitTime ==
    /\ config \in ProbeConfigs
    /\ now = [at |-> Now0, micro |-> TRUE]
    /\ probe \in {[fn |-> "time", video |-> v, done |-> FALSE] : v \in ProbeVideos(now)}
    /\ videos = <<>>
    /\ pc = "idle"
    /\ idx = 1
    /\ filtered_videos = <<>>
    /\ filter_stats = [r \in {} |-> 0]
    /\ outcomes = <<>>
    /\ run = NoRun
    /\ OthersIdle

\* _check_time_filter on the record, and _apply_filters on it
ProbeTimeFilter ==
    /\ probe.fn = "time"
    /\ ~probe.done
    /\ \E detected \in DetectOutcomes :
         probe' = [fn |-> "time", video |-> probe.video, done |-> TRUE,
                   passed |-> _check_time_filter(probe.video, config, now).v,
                   applied |-> _apply_filters(probe.video, config, now, detected)]
    /\ UNCHANGED <<config, now, videos, pc, idx, filtered_videos, filter_stats, outcomes, run, others>>

NextTime == ProbeTimeFilter

SpecTime == InitTime /\ [][NextTime]_vars

-----------------------------------------------------------------------------
(* Properties of filter_videos *)

\* the sum of the values of a dict of counters
RECURSIVE SumOver(_, _)
SumOver(f, keys) ==
    IF keys = {} THEN 0
    ELSE LET k == CHOOSE x \in keys : TRUE
         IN  f[k] + SumOver(f, keys \ {k})

RejectionTotal(stats) ==
    IF "rejection_reasons" \in DOMAIN stats
    THEN SumOver(stats.rejection_reasons, DOMAIN stats.rejection_reasons)
    ELSE 0

\* the number of records of the batch whose outcome is of the kinds given
CountKind(kinds) == Cardinality({i \in 1..Len(outcomes) : outcomes[i].kind \in kinds})

\* the keys the enhancer adds
EnhancementKeys ==
    {"filtered_at", "japanese_score", "keyword_score", "detected_language",
     "engagement_rate", "hours_since_post"}

\* an output record without the keys the enhancer adds
Original(enhanced) == [k \in DOMAIN enhanced \ EnhancementKeys |-> enhanced[k]]

Returned == pc = "done"

\* C1: when filter_videos has returned for a non-empty batch, total_input is the
\* length of the batch and equals final_output plus the sum of the counters of
\* rejection_reasons, processing_error included; for an empty batch the counts
\* returned are 0 and there is no rejection counter.
C1_Accounting ==
    Returned =>
        IF videos = <<>>
        THEN filter_stats.total = 0 /\ filter_stats.filtered = 0
             /\ DOMAIN filter_stats.filter_stats = {}
        ELSE /\ filter_stats.total_input = Len(videos)
             /\ filter_stats.total_input = filter_stats.final_output + RejectionTotal(filter_stats)
             /\ filter_stats.final_output = Len(filtered_videos)

\* a batch with a record that raised, a rejected one or an accepted one, returned
C1_Witness ==
    /\ Returned
    /\ Len(videos) = 2
    /\ CountKind({"error"}) = 1
    /\ "processing_error" \in DOMAIN filter_stats.rejection_reasons

\* C2: every record of the output carries the six keys the enhancer adds, and
\* hours_since_post is a number or None.  Stated for the records whose language
\* detection returned in the enhancer (detected_language is set), so that the
\* detector's failures play no part.
C2_AcceptedCarryAllFields ==
    \A j \in 1..Len(filtered_videos) :
        "detected_language" \in DOMAIN filtered_videos[j] =>
            /\ EnhancementKeys \subseteq DOMAIN filtered_videos[j]
            /\ filtered_videos[j]["hours_since_post"].t \in {"float", "int", "none"}

\* the stages in the order of the chain, and the reason each records
StageOrder == <<"time", "views", "verified", "language", "region", "quality">>

ReasonOf ==
    [time |-> "time_range", views |-> "view_count", verified |-> "verified_account",
     language |-> "language", region |-> "region", quality |-> "quality"]

\* what a stage answers on a record, the stage taken alone
StageResult(stage, video, detected) ==
    CASE stage = "time" -> _check_time_filter(video, config, now)
      [] stage = "views" -> _check_views_filter(video, config)
      [] stage = "verified" -> _check_verified_filter(video, config)
      [] stage = "language" -> _check_language_filter(video, detected)
      [] stage = "region" -> _check_region_filter(video, config)
      [] stage = "quality" -> _check_quality_filter(video)

\* C3: for every record the stages evaluated are a prefix of time, views,
\* verified, language, region, quality; every stage before the last evaluated one
\* passed; a rejected record's last evaluated stage is the one that fails and its
\* reason is that stage's; an accepted record has passed all six.
C3_FirstFailingStage ==
    \A i \in 1..Len(outcomes) :
        LET o == outcomes[i]
            n == Len(o.evaluated)
        IN  /\ n \in 1..6
            /\ o.evaluated = SubSeq(StageOrder, 1, n)
            /\ \E detected \in DetectOutcomes :
                 /\ \A k \in 1..(n - 1) :
                        StageResult(StageOrder[k], videos[i], detected) = Ok(TRUE)
                 /\ o.kind = "rejected" =>
                        /\ StageResult(StageOrder[n], videos[i], detected) = Ok(FALSE)
                        /\ o.reason = ReasonOf[StageOrder[n]]
                 /\ o.kind = "accepted" =>
                        /\ n = 6
                        /\ StageResult(StageOrder[6], videos[i], detected) = Ok(TRUE)
                 /\ o.kind = "error" =>
                        Raised(StageResult(StageOrder[n], videos[i], detected))

\* a record rejected by the time stage that the views stage would reject too
C3_Witness ==
    \E i \in 1..Len(outcomes) :
        /\ outcomes[i].kind = "rejected"
        /\ outcomes[i].reason = "time_range"
        /\ outcomes[i].evaluated = <<"time">>
        /\ _check_views_filter(videos[i], config) = Ok(FALSE)

\* C4: no exception leaves filter_videos; a record whose evaluation raised is
\* counted under processing_error, no record of the output comes from it, and
\* when filter_videos has returned every record of the batch has an outcome.
C4_ErrorIsolated ==
    /\ pc # "raised"
    /\ pc \in {"loop", "done"} /\ videos # <<>> =>
        /\ CountKind({"error"}) =
              (IF "processing_error" \in DOMAIN filter_stats.rejection_reasons
               THEN filter_stats.rejection_reasons["processing_error"] ELSE 0)
        /\ \A i \in 1..Len(outcomes) :
              outcomes[i].kind = "error" =>
                 /\ outcomes[i].reason = "processing_error"
                 /\ \A j \in 1..Len(filtered_videos) : Original(filtered_videos[j]) # videos[i]
        /\ Len(filtered_videos) = CountKind({"accepted"})
    /\ Returned => Len(outcomes) = Len(videos)

\* a batch whose first record raised and whose second record was accepted
C4_Witness ==
    /\ Returned
    /\ Len(outcomes) = 2
    /\ outcomes[1].kind = "error"
    /\ outcomes[2].kind = "accepted"
    /\ Len(filtered_videos) = 1

\* the records of the batch accepted among the first n, in input order
RECURSIVE AcceptedUpTo(_)
AcceptedUpTo(n) ==
    IF n = 0 THEN <<>>
    ELSE IF outcomes[n].kind = "accepted" THEN Append(AcceptedUpTo(n - 1), videos[n])
    ELSE AcceptedUpTo(n - 1)

\* C5: the output, without the keys the enhancer adds, is the input sequence
\* restricted to the accepted records, in input order, each once.
C5_OutputInInputOrder ==
    pc \in {"loop", "done"} /\ videos # <<>> =>
        LET accepted == AcceptedUpTo(Len(outcomes))
        IN  /\ Len(filtered_videos) = Len(accepted)
            /\ \A j \in 1..Len(filtered_videos) : Original(filtered_videos[j]) = accepted[j]

\* two different records accepted
C5_Witness ==
    /\ Returned
    /\ Len(filtered_videos) = 2
    /\ Original(filtered_videos[1]) # Original(filtered_videos[2])

\* C6: the statistics returned carry total_input, final_output and filter_rate,
\* with filter_rate = final_output / total_input * 100, and all three 0 for an
\* empty batch.
C6_FilterRateReported ==
    Returned =>
        /\ {"total_input", "final_output", "filter_rate"} \subseteq DOMAIN filter_stats
        /\ IF videos = <<>>
           THEN /\ filter_stats["total_input"] = 0
                /\ filter_stats["final_output"] = 0
                /\ filter_stats["filter_rate"].num = 0
           ELSE filter_stats["filter_rate"].num * filter_stats["total_input"]
                    = filter_stats["final_output"] * 100 * filter_stats["filter_rate"].den

\* C8: an iteration of the loop leaves every record of the caller's list as it
\* was, and a record it adds to the output is a value different from the input
\* record that has the input's keys and values and the added filtered_at.
C8_InputUntouched ==
    [][pc = "loop" /\ idx <= Len(videos) =>
          /\ videos' = videos
          /\ Len(filtered_videos') > Len(filtered_videos) =>
                LET e == filtered_videos'[Len(filtered_videos')]
                IN  /\ e # videos[idx]
                    /\ "filtered_at" \in DOMAIN e
                    /\ \A k \in DOMAIN videos[idx] : e[k] = videos[idx][k]]_vars

\* filter_videos has returned with an accepted record, enhanced
C8_Witness ==
    /\ Returned
    /\ Len(filtered_videos) >= 1
    /\ "filtered_at" \in DOMAIN filtered_videos[1]
    /\ \E i \in 1..Len(videos) : outcomes[i].kind = "accepted" /\ "filtered_at" \notin DOMAIN videos[i]

\* C9: for the three records of test_video_filter under its configuration the
\* outcomes are accepted, rejected for time_range, rejected for view_count, with
\* total_input 3 and final_output 1.  Stated for a clock read with a microsecond
\* other than 0, as all but one reading in a million are.
C9_TestScenario ==
    Returned /\ videos = TestVideos(now) /\ config = TestConfig /\ now.micro =>
        /\ outcomes[1].kind = "accepted"
        /\ outcomes[2].kind = "rejected" /\ outcomes[2].reason = "time_range"
        /\ outcomes[3].kind = "rejected" /\ outcomes[3].reason = "view_count"
        /\ filter_stats.total_input = 3
        /\ filter_stats.final_output = 1

-----------------------------------------------------------------------------
(* Properties of a collection run *)

\* the records the source client returned in the run
Fetched == run.discover_videos \o run.hashtag_videos

\* C7: when a collection run has returned, the number of records the source
\* client returned is the number of accepted records plus the sum of the
\* rejection counters of the statistics reported.  Stated for the runs in which
\* no two of the records returned carry the same id, so that the merging of
\* duplicates plays no part.
C7_FetchedAccounted ==
    /\ run.phase = "returned"
    /\ \A i, j \in 1..Len(Fetched) :
          i < j /\ Truthy(VideoId(Fetched[i])) /\ Truthy(VideoId(Fetched[j]))
              => VideoId(Fetched[i]) # VideoId(Fetched[j])
    => Len(Fetched) = run.result.filtered_count + RejectionTotal(run.result.filter_stats)

-----------------------------------------------------------------------------
(* Properties of the time stage *)

\* the creation time of a record: create_time, or createTime when there is no
\* create_time (None when there is neither)
CreationTime(video) ==
    IF Truthy(Get(video, "create_time")) THEN Get(video, "create_time")
    ELSE Get(video, "createTime")

\* the date-time formats listed: YYYY-MM-DD HH:MM:SS, YYYY-MM-DDTHH:MM:SS,
\* YYYY-MM-DDTHH:MM:SSZ, YYYY-MM-DD HH:MM:SS.ffffff
InListedFormat(x) ==
    /\ IsDateStr(x)
    /\ <<x.dt.sep, x.dt.frac, x.dt.zone>> \in
          {<<" ", FALSE, "">>, <<"T", FALSE, "">>, <<"T", FALSE, "Z">>, <<" ", TRUE, "">>}

\* a Unix epoch in seconds, as a number or a numeric string
IsEpoch(x) ==
    \/ x.t \in {"int", "float"}
    \/ IsText(x) /\ ~Raised(ParseFloat(x.s))

Parseable(x) == Truthy(x) /\ (InListedFormat(x) \/ IsEpoch(x))

\* the instant a parseable creation time stands for, as the fraction num/den
ParsedTime(x) ==
    IF InListedFormat(x) THEN [num |-> x.dt.at, den |-> 1]
    ELSE IF x.t = "int" THEN [num |-> x.v, den |-> 1]
    ELSE IF x.t = "float" THEN [num |-> x.num, den |-> x.den]
    ELSE [num |-> ParseFloat(x.s).v.num, den |-> ParseFloat(x.s).v.den]

\* C10: the time stage passes a record iff its creation time is parseable (a
\* listed format, or epoch seconds as number or numeric string) and now minus the
\* parsed time is at most time_range_hours; so a later time than now passes; and
\* a record the stage fails is rejected with reason time_range.
C10_TimeStage ==
    probe.fn = "time" /\ probe.done =>
        LET x == CreationTime(probe.video)
            range == time_range_hours(config) * 3600
        IN  /\ probe.passed <=>
                  /\ Parseable(x)
                  /\ now.at * ParsedTime(x).den - ParsedTime(x).num <= range * ParsedTime(x).den
            /\ ~probe.passed =>
                  /\ ~probe.applied.passed
                  /\ probe.applied.reason = "time_range"
                  /\ probe.applied.evaluated = <<"time">>

\* a record created exactly 24 hours before now has passed the stage under a
\* range of 24 hours
C10_Witness ==
    /\ probe.fn = "time" /\ probe.done
    /\ config = TestConfig
    /\ probe.passed
    /\ Parseable(CreationTime(probe.video))
    /\ now.at * ParsedTime(CreationTime(probe.video)).den
          - ParsedTime(CreationTime(probe.video)).num
       = 24 * 3600 * ParsedTime(CreationTime(probe.video)).den

-----------------------------------------------------------------------------
(* The verified stage applied to a record and to its twin that is not verified *)

\* records without a mark of verification: accepted ones that differ in the
\* representation of the view count, in the text and in the author's followers,
\* one below the view threshold and one without creation time
VerifiedBases(clock) ==
    LET good == Without(GoodVideo(clock), "is_verified")
    IN  { good,
          Put(good, "view_count", PyStr(<<"1", ".", "2", "M">>)),
          Put(Without(good, "view_count"), "viewCount", PyInt(800000)),
          Put(good, "description",
              PyStr(<<"H","e","l","l","o"," ","w","o","r","l","d"," ","f","r","o","m"," ","m","e">>)),
          Put(good, "description", PyStr(Desc001 \o <<" ","#","t","r","a","v","e","l">>)),
          Put(good, "description", PyStr(ShortDesc)),
          Put(good, "author", PyDict([followerCount |-> PyInt(200000)])),
          Put(good, "view_count", PyInt(300000)),
          Without(good, "create_time") }

VerifiedMarks == {"is_verified", "is_verified_int", "author", "authorMeta"}

\* base marked verified: by its own is_verified, or by verified under author or
\* under authorMeta
MarkVerified(base, mark) ==
    CASE mark = "is_verified" -> Put(base, "is_verified", PyBool(TRUE))
      [] mark = "is_verified_int" -> Put(base, "is_verified", PyInt(1))
      [] mark = "author" ->
            Put(Put(base, "is_verified", PyBool(FALSE)), "author",
                PyDict(Put(base["author"].d, "verified", PyBool(TRUE))))
      [] mark = "authorMeta" ->
            Put(base, "authorMeta", PyDict([verified |-> PyBool(TRUE)]))

\* base marked not verified
MarkNotVerified(base) == Put(base, "is_verified", PyBool(FALSE))

VerifiedConfigs ==
    {TestConfig, [TestConfig EXCEPT !.exclude_verified = FALSE], [min_views |-> 500000]}

InitVerified ==
    /\ config \in VerifiedConfigs
    /\ now = [at |-> Now0, micro |-> TRUE]
    /\ probe \in {[fn |-> "verified", mark |-> mark, video |-> MarkVerified(base, mark),
                   twin |-> MarkNotVerified(base), done |-> FALSE] :
                      base \in VerifiedBases(now), mark \in VerifiedMarks}
    /\ videos = <<>>
    /\ pc = "idle"
    /\ idx = 1
    /\ filtered_videos = <<>>
    /\ filter_stats = [r \in {} |-> 0]
    /\ outcomes = <<>>
    /\ run = NoRun
    /\ OthersIdle

\* _check_verified_filter on the record, and _apply_filters on the record and on
\* its twin with the same answer of detect()
ProbeVerifiedFilter ==
    /\ probe.fn = "verified"
    /\ ~probe.done
    /\ \E detected \in DetectOutcomes :
         probe' = [fn |-> "verified", mark |-> probe.mark, video |-> probe.video,
                   twin |-> probe.twin, done |-> TRUE,
                   stage |-> _check_verified_filter(probe.video, config),
                   applied |-> _apply_filters(probe.video, config, now, detected),
                   twin_applied |-> _apply_filters(probe.twin, config, now, detected)]
    /\ UNCHANGED <<config, now, videos, pc, idx, filtered_videos, filter_stats, outcomes, run, others>>

NextVerified == ProbeVerifiedFilter

SpecVerified == InitVerified /\ [][NextVerified]_vars

\* C11: a record marked verified that passes the time and views stages is
\* rejected with reason verified_account when exclude_verified is true; when it
\* is false the verified stage passes the record and _apply_filters answers for
\* it what it answers for the same record marked not verified.
C11_VerifiedToggle ==
    /\ probe.fn = "verified" /\ probe.done
    /\ _check_time_filter(probe.video, config, now) = Ok(TRUE)
    /\ _check_views_filter(probe.video, config) = Ok(TRUE)
    => IF GetDefault(config, "exclude_verified", TRUE)
       THEN /\ ~probe.applied.passed
            /\ probe.applied.exc = "none"
            /\ probe.applied.reason = "verified_account"
       ELSE /\ probe.stage = Ok(TRUE)
            /\ probe.applied = probe.twin_applied

\* a record marked verified under its author sub-object: rejected for
\* verified_account under exclude_verified, or accepted like its twin without it
C11_Witness ==
    /\ probe.fn = "verified" /\ probe.done
    /\ probe.mark = "author"
    /\ \/ config = TestConfig /\ probe.applied.reason = "verified_account"
          /\ probe.twin_applied.passed
       \/ ~GetDefault(config, "exclude_verified", TRUE) /\ probe.applied.passed
          /\ probe.twin_applied.passed

-----------------------------------------------------------------------------
(* BrightDataClient.wait_for_completion (src/brightdata_client.py) *)

\* what a call of get_job_status answers: the status of the job, or an exception
\* (of the transport, or of the decoding of the response)
JobStatuses == {"completed", "failed", "running", "pending", "unknown"}
PollErrors == {"RequestException", "ValueError"}
PollAnswers == JobStatuses \cup PollErrors

\* what a call of get_results answers
FetchAnswers == {"ok", "RequestException", "JSONDecodeError"}

\* time.sleep(check_interval)
Sleep(j) == [j EXCEPT !.elapsed = @ + j.check_interval]

\* a variant of the except clause that raises the exception to the caller
OnErrorRaises(j, exc) == [j EXCEPT !.phase = "raised", !.exc = exc]

\* the except clause of the loop body: the exception is logged, then the sleep
OnError(j, exc) == Sleep([j EXCEPT !.logged = @ \cup {exc}])

\* the body of the while loop, on the answer of get_job_status and, for a
\* completed job, the answer of get_results
PollStep(j, answer, fetched) ==
    LET seen == [j EXCEPT !.observed = @ \cup {answer}, !.last = answer, !.polls = @ + 1]
    IN  IF answer \in PollErrors THEN OnError(seen, answer)
        ELSE IF answer = "completed" THEN
            (IF fetched = "ok"
             THEN [seen EXCEPT !.phase = "returned", !.result = "results"]
             ELSE OnError(seen, fetched))
        ELSE IF answer = "failed" THEN OnError(seen, "JobFailed")
        ELSE Sleep(seen)

\* one iteration of the while loop; latency is the time the requests take
WaitPoll ==
    /\ job.phase = "polling"
    /\ job.elapsed < job.max_wait_time
    /\ \E latency \in {0, 1}, answer \in PollAnswers, fetched \in FetchAnswers :
         job' = PollStep([job EXCEPT !.elapsed = @ + latency], answer, fetched)
    /\ UNCHANGED <<filterVars, sheet, system>>

\* a variant of the end of the loop that starts the wait again instead of raising
WaitTimeoutRestarts ==
    /\ job.phase = "polling"
    /\ job.elapsed >= job.max_wait_time
    /\ job' = [job EXCEPT !.elapsed = 0, !.polls = 0, !.observed = {}, !.last = "none",
                          !.logged = {}]
    /\ UNCHANGED <<filterVars, sheet, system>>

\* the while condition is false: raise TimeoutError
WaitTimeout ==
    /\ job.phase = "polling"
    /\ job.elapsed >= job.max_wait_time
    /\ job' = [job EXCEPT !.phase = "raised", !.exc = "TimeoutError"]
    /\ UNCHANGED <<filterVars, sheet, system>>

InitWait ==
    /\ FilterIdle
    /\ sheet = NoSheet
    /\ system = NoSystem
    /\ \E max_wait_time \in 1..MaxWaitTime, check_interval \in 1..MaxInterval :
         job = [phase |-> "polling", max_wait_time |-> max_wait_time,
                check_interval |-> check_interval, elapsed |-> 0, polls |-> 0,
                observed |-> {}, last |-> "none", logged |-> {},
                exc |-> "none", result |-> "none"]

NextWait == WaitPoll \/ WaitTimeout

SpecWait == InitWait /\ [][NextWait]_vars

\* the loop goes on: time.sleep and the requests return
SpecWaitFair == SpecWait /\ WF_vars(NextWait)

\* C12: once a poll has reported the job as failed, wait_for_completion has
\* raised the job failure: it is not polling any more, has not returned and has
\* not raised TimeoutError.
C12_FailedStopsWait ==
    job.phase # "none" /\ "failed" \in job.observed =>
        job.phase = "raised" /\ job.exc = "JobFailed"

\* C13: wait_for_completion never raises the error of a poll or of a fetch, and
\* raises TimeoutError only with max_wait_time elapsed; a poll that failed with an
\* error of the transport leaves the wait polling while the deadline has not
\* passed; and a wait in which no poll observes completed or failed ends, with
\* TimeoutError.
C13_Safety ==
    job.phase # "none" =>
        /\ job.phase = "raised" =>
              /\ job.exc \notin PollErrors \cup FetchAnswers
              /\ job.exc = "TimeoutError" => job.elapsed >= job.max_wait_time
        /\ job.last \in PollErrors /\ job.elapsed < job.max_wait_time =>
              job.phase = "polling"
        /\ job.phase = "returned" => job.last = "completed"
        /\ job.phase # "polling" /\ job.observed \cap {"completed", "failed"} = {} =>
              job.phase = "raised" /\ job.exc = "TimeoutError"

C13_TimeoutAndRetry ==
    /\ []C13_Safety
    /\ (job.phase = "polling") ~> (job.phase \in {"returned", "raised"})

\* TimeoutError raised after a poll that failed with a transport error was
\* retried, no poll having observed completed or failed
C13_Witness ==
    /\ job.phase = "raised"
    /\ job.exc = "TimeoutError"
    /\ "RequestException" \in job.logged
    /\ job.polls >= 2
    /\ job.observed \cap {"completed", "failed"} = {}

-----------------------------------------------------------------------------
(* SheetsManager.upload_tiktok_data (src/sheets_manager.py) *)

\* The worksheet is the sequence of its rows up to the last row that is not
\* empty (what get_all_values returns); a row is the sequence of its cells, and a
\* cell a sequence of characters.

\* the row of the column names (df.columns): the first columns of the 20
HeaderRow == <<<<"kj_dou", "kj_ga", "I", "D">>, <<"kj_sai", "kj_sei", "kj_suu">>>>

\* an empty row of the grid
BlankRow == <<>>

\* str(n) of the integer a count is coerced to (pd.to_numeric, errors='coerce',
\* fillna(0), astype(int)): 0 for what is no number
CountCell(x) ==
    IF x.t = "int" THEN x.v
    ELSE IF x.t = "float" THEN Trunc(x.num, x.den)
    ELSE IF IsText(x) /\ ~Raised(ParseFloat(x.s)) THEN
        Trunc(ParseFloat(x.s).v.num, ParseFloat(x.s).v.den)
    ELSE 0

\* the row of a record (_prepare_dataframe): the column of the id, '' when the
\* record has none, and the column of the view count
DataRow(record) ==
    << (IF "video_id" \in DOMAIN record /\ IsText(record["video_id"])
        THEN record["video_id"].s ELSE <<>>),
       IntToChars(CountCell(GetDefault(record, "view_count", PyStr(<<>>)))) >>

\* df.values.tolist()
DataRows(data) == [i \in 1..Len(data) |-> DataRow(data[i])]

\* create_or_get_worksheet: the worksheet of that name, or a new one with the
\* header row
create_or_get_worksheet(ws) ==
    IF ws.exists THEN ws ELSE [exists |-> TRUE, rows |-> <<HeaderRow>>]

\* start_row of _upload_dataframe
StartRow(existing_rows) == IF existing_rows > 0 THEN existing_rows + 1 ELSE 2

\* worksheet.update('A{start}:T{end}', data_rows): the rows from start on are
\* written, the rows of the grid before them stay
UpdateRange(rows, start_row, data_rows) ==
    [i \in 1..(start_row + Len(data_rows) - 1) |->
        IF i >= start_row THEN data_rows[i - start_row + 1]
        ELSE IF i <= Len(rows) THEN rows[i]
        ELSE BlankRow]

\* _upload_dataframe: the rows of the worksheet afterwards, and the result
_upload_dataframe(rows, data_rows) ==
    LET existing_rows == Len(rows)
        start_row == StartRow(existing_rows)
    IN  [rows |-> IF data_rows # <<>> THEN UpdateRange(rows, start_row, data_rows) ELSE rows,
         result |-> [status |-> "success", count |-> Len(data_rows),
                     start_row |-> IF data_rows # <<>> THEN start_row ELSE existing_rows]]

\* upload_tiktok_data on the worksheet ws; api is "ok" or the request of the
\* call of worksheet.update fails
upload_tiktok_data(ws, data, clear_existing, api) ==
    IF data = <<>> THEN [ws |-> ws, exc |-> "none", result |-> [status |-> "no_data", count |-> 0]]
    ELSE
        LET got == create_or_get_worksheet(ws)
            cleared == IF clear_existing THEN <<HeaderRow>> ELSE got.rows
            uploaded == _upload_dataframe(cleared, DataRows(data))
        IN  IF api # "ok"
            THEN [ws |-> [exists |-> TRUE, rows |-> cleared], exc |-> api,
                  result |-> [status |-> "raised", count |-> 0]]
            ELSE [ws |-> [exists |-> TRUE, rows |-> uploaded.rows], exc |-> "none",
                  result |-> uploaded.result]

\* records handed to an upload
UploadRecord(id, views) == [video_id |-> PyStr(<<id>>), view_count |-> views]

UploadCatalogue ==
    { UploadRecord("a", PyInt(1000000)),
      UploadRecord("b", PyStr(<<"1", ".", "2", "M">>)),
      [view_count |-> PyInt(800000)] }

\* worksheets before a call: none of that name, an empty one, one with the header
\* only, and with rows under the header (one of them empty)
SheetsBefore ==
    { [exists |-> FALSE, rows |-> <<>>],
      [exists |-> TRUE, rows |-> <<>>],
      [exists |-> TRUE, rows |-> <<HeaderRow>>],
      [exists |-> TRUE, rows |-> <<HeaderRow, DataRow(UploadRecord("z", PyInt(7)))>>],
      [exists |-> TRUE, rows |-> <<HeaderRow, BlankRow, DataRow(UploadRecord("z", PyInt(7)))>>] }

UploadApi == {"ok", "APIError"}

InitSheet ==
    /\ FilterIdle
    /\ job = NoJob
    /\ system = NoSystem
    /\ \E ws \in SheetsBefore : sheet = [phase |-> "idle", ws |-> ws]

\* a call of upload_tiktok_data
UploadTiktokData ==
    /\ sheet.phase \in {"idle", "called"}
    /\ \E data \in SeqsUpTo(UploadCatalogue, MaxUpload), clear_existing \in BOOLEAN,
          api \in UploadApi :
         /\ Len(sheet.ws.rows) + Len(data) + 1 <= MaxRows
         /\ LET call == upload_tiktok_data(sheet.ws, data, clear_existing, api)
            IN  sheet' = [phase |-> "called", ws |-> call.ws, before |-> sheet.ws,
                          data |-> data, clear_existing |-> clear_existing,
                          exc |-> call.exc, result |-> call.result]
    /\ UNCHANGED <<filterVars, job, system>>

NextSheet == UploadTiktokData

SpecSheet == InitSheet /\ [][NextSheet]_vars

\* C14: after a call of upload_tiktok_data that returned, with clear_existing
\* false every row the worksheet held before is unchanged and the rows of the
\* new records follow the last of them; with clear_existing true the worksheet
\* holds the header row followed by the rows of the new records.  Stated for a
\* worksheet that held at least one row before the call.
C14_AppendOrReplace ==
    sheet.phase = "called" /\ sheet.exc = "none" /\ sheet.before.rows # <<>> =>
        IF sheet.clear_existing
        THEN sheet.ws.rows = <<HeaderRow>> \o DataRows(sheet.data)
        ELSE sheet.ws.rows = sheet.before.rows \o DataRows(sheet.data)

-----------------------------------------------------------------------------
(* TikTokBrightDataSystem.__init__ (src/main.py): start-up *)

\* required_keys of _load_config, each as its path
required_keys ==
    << <<"bright_data", "api_key">>,
       <<"bright_data", "dataset_id">>,
       <<"google_sheets", "credentials_file">> >>

\* the loop over the path of a required key: value = value.get(k), ValueError when
\* the value is None, AttributeError when a value on the way is no dict
RequiredKeyCheck(cfg, path) ==
    LET section == Get(cfg, path[1])
    IN  IF section.t = "none" THEN Raise("ValueError")
        ELSE IF section.t # "dict" THEN Raise("AttributeError")
        ELSE IF Get(section.d, path[2]).t = "none" THEN Raise("ValueError")
        ELSE Ok(TRUE)

\* _load_config: the configuration read, or sys.exit(1) after any exception
_load_config(file) ==
    IF ~file.exists THEN Raise("SystemExit")
    ELSE IF ~file.json THEN Raise("SystemExit")
    ELSE IF \E i \in 1..Len(required_keys) : Raised(RequiredKeyCheck(file.config, required_keys[i]))
    THEN Raise("SystemExit")
    ELSE Ok(file.config)

\* _initialize_components: the components constructed, in order, and the
\* exception that ends the construction; auth is what the authentication of
\* SheetsManager answers for a credentials file that can be opened
_initialize_components(cfg, auth) ==
    LET bright == cfg["bright_data"].d
        sheets == cfg["google_sheets"].d
    IN  IF "spreadsheet_name" \notin DOMAIN sheets
        THEN [components |-> <<"bright_data_client">>, exc |-> "KeyError"]
        ELSE IF ~Truthy(sheets["credentials_file"])
        THEN [components |-> <<"bright_data_client">>, exc |-> "FileNotFoundError"]
        ELSE IF auth # "ok"
        THEN [components |-> <<"bright_data_client">>, exc |-> auth]
        ELSE IF "collection_settings" \notin DOMAIN cfg
        THEN [components |-> <<"bright_data_client", "sheets_manager">>, exc |-> "KeyError"]
        ELSE [components |-> <<"bright_data_client", "sheets_manager", "video_filter">>,
              exc |-> "none"]

\* values of a key of the configuration file: a text, the empty text, null; a
\* key may also be absent
KeyValues == {PyStr(<<"x">>), PyStr(<<>>), PyNone}

\* the mark of a key that the file does not hold
Absent == [t |-> "absent"]

\* a section with the keys given; a key marked Absent is left out
Section(pairs) == [k \in {p[1] : p \in {q \in pairs : q[2] # Absent}} |->
                      (CHOOSE p \in pairs : p[1] = k)[2]]

ConfigFiles ==
    { [exists |-> FALSE, json |-> FALSE, config |-> EmptyDict],
      [exists |-> TRUE, json |-> FALSE, config |-> EmptyDict],
      [exists |-> TRUE, json |-> TRUE, config |-> EmptyDict],
      [exists |-> TRUE, json |-> TRUE,
       config |-> [bright_data |-> PyStr(<<"x">>),
                   google_sheets |-> PyDict([credentials_file |-> PyStr(<<"x">>)])]] }
    \cup
    { [exists |-> TRUE, json |-> TRUE,
       config |-> Section({<<"bright_data",
                             PyDict(Section({<<"api_key", a>>, <<"dataset_id", d>>}))>>,
                           <<"google_sheets",
                             PyDict(Section({<<"credentials_file", c>>, <<"spreadsheet_name", n>>}))>>,
                           <<"collection_settings", s>>})] :
          a \in KeyValues \cup {Absent}, d \in KeyValues \cup {Absent},
          c \in KeyValues \cup {Absent}, n \in {PyStr(<<"x">>), Absent},
          s \in {PyDict(EmptyDict), Absent} }

AuthAnswers == {"ok", "GoogleAuthError"}

InitSystem ==
    /\ FilterIdle
    /\ job = NoJob
    /\ sheet = NoSheet
    /\ \E file \in ConfigFiles :
         system = [phase |-> "start", file |-> file, components |-> <<>>, exc |-> "none"]

\* __init__ up to the end of _load_config
LoadConfig ==
    /\ system.phase = "start"
    /\ LET loaded == _load_config(system.file)
       IN  system' = IF Raised(loaded)
                     THEN [system EXCEPT !.phase = "exited", !.exc = loaded.exc]
                     ELSE [system EXCEPT !.phase = "loaded"]
    /\ UNCHANGED <<filterVars, job, sheet>>

\* __init__ from _setup_logging on: the components
InitializeComponents ==
    /\ system.phase = "loaded"
    /\ \E auth \in AuthAnswers :
         LET made == _initialize_components(system.file.config, auth)
         IN  system' = [system EXCEPT !.phase = IF made.exc = "none" THEN "ready" ELSE "raised",
                                      !.components = made.components,
                                      !.exc = made.exc]
    /\ UNCHANGED <<filterVars, job, sheet>>

NextSystem == LoadConfig \/ InitializeComponents

SpecSystem == InitSystem /\ [][NextSystem]_vars

\* a required key of the configuration is missing or has an empty value
RequiredKeyMissingOrEmpty(cfg) ==
    \E i \in 1..Len(required_keys) :
        LET path == required_keys[i]
            section == Get(cfg, path[1])
        IN  \/ section.t # "dict"
            \/ ~Truthy(Get(section.d, path[2]))

\* C15: with a required key missing or empty, start-up goes no further than the
\* loading of the configuration: it ends there with the configuration error, and
\* no component is ever constructed.
C15_AbortBeforeComponents ==
    system.phase # "none" /\ system.file.exists /\ system.file.json
    /\ RequiredKeyMissingOrEmpty(system.file.config) =>
        /\ system.phase \in {"start", "exited"}
        /\ system.components = <<>>

-----------------------------------------------------------------------------
(* TikTokBrightDataSystem.run_collection (src/main.py): save, then upload *)

\* what writing the files answers: every write succeeds, or the write of the
\* CSV file or of the JSON file raises
FileAnswers == {"ok", "csv_error", "json_error"}

\* save_to_files: the files on disk afterwards, the writes made in their order,
\* and the exception of the write that failed
save_to_files(files, data, output_settings, io) ==
    LET csv == output_settings.csv_output
        json == output_settings.json_output
        csv_file == [kind |-> "csv", content |-> data]
        json_file == [kind |-> "json", content |-> data]
    IN  IF csv /\ io = "csv_error"
        THEN [files |-> files, writes |-> <<>>, exc |-> "OSError"]
        ELSE LET after_csv == IF csv THEN files \cup {csv_file} ELSE files
                 csv_writes == IF csv THEN <<"csv">> ELSE <<>>
             IN  IF json /\ io = "json_error"
                 THEN [files |-> after_csv, writes |-> csv_writes, exc |-> "OSError"]
                 ELSE [files |-> IF json THEN after_csv \cup {json_file} ELSE after_csv,
                       writes |-> IF json THEN Append(csv_writes, "json") ELSE csv_writes,
                       exc |-> "none"]

\* upload_to_sheets: upload_tiktok_data with clear_existing False, then the
\* summary worksheet; the exception of either is raised again
upload_to_sheets(ws, data, api, summary) ==
    IF data = <<>> THEN [ws |-> ws, exc |-> "none", status |-> "no_data"]
    ELSE LET call == upload_tiktok_data(ws, data, FALSE, api)
         IN  IF call.exc # "none" THEN [ws |-> call.ws, exc |-> call.exc, status |-> "raised"]
             ELSE IF summary # "ok" THEN [ws |-> call.ws, exc |-> summary, status |-> "raised"]
             ELSE [ws |-> call.ws, exc |-> "none", status |-> "success"]

\* the except clause of run_collection, reached from a failed upload, with the
\* files removed first
UploadFailedCleansUp(s, exc) ==
    [s EXCEPT !.phase = "raised", !.exc = exc, !.files = {},
              !.log = Append(@, "upload_to_sheets")]

\* the except clause of run_collection, reached from a failed upload: log, raise
UploadFailed(s, exc) ==
    [s EXCEPT !.phase = "raised", !.exc = exc, !.log = Append(@, "upload_to_sheets")]

CollectAnswers == {"ok", "CollectError"}

OutputSettings == [csv_output : BOOLEAN, json_output : BOOLEAN]

InitRun ==
    /\ FilterIdle
    /\ job = NoJob
    /\ \E ws \in SheetsBefore : sheet = [phase |-> "idle", ws |-> ws]
    /\ \E save_files \in BOOLEAN, upload_sheets \in BOOLEAN, output_settings \in OutputSettings :
         system = [phase |-> "ready", save_files |-> save_files,
                   upload_sheets |-> upload_sheets, output_settings |-> output_settings,
                   videos |-> <<>>, files |-> {}, log |-> <<>>, exc |-> "none",
                   status |-> "none"]

\* run_collection, step 1: collect_viral_videos
RunCollect ==
    /\ system.phase = "ready"
    /\ \E answer \in CollectAnswers, found \in SeqsUpTo(UploadCatalogue, MaxUpload) :
         system' = IF answer # "ok"
                   THEN [system EXCEPT !.phase = "raised", !.exc = answer]
                   ELSE IF found = <<>>
                   THEN [system EXCEPT !.phase = "returned", !.status = "no_videos"]
                   ELSE [system EXCEPT !.phase = "collected", !.videos = found]
    /\ UNCHANGED <<filterVars, job, sheet>>

\* run_collection, step 2: save_to_files when save_files
RunSaveFiles ==
    /\ system.phase = "collected"
    /\ \E io \in FileAnswers :
         LET saved == save_to_files(system.files, system.videos, system.output_settings, io)
         IN  system' = IF ~system.save_files THEN [system EXCEPT !.phase = "saved"]
                       ELSE [system EXCEPT
                               !.phase = IF saved.exc = "none" THEN "saved" ELSE "raised",
                               !.files = saved.files,
                               !.log = @ \o saved.writes,
                               !.exc = saved.exc]
    /\ UNCHANGED <<filterVars, job, sheet>>

\* run_collection, step 3: upload_to_sheets when upload_sheets
RunUploadToSheets ==
    /\ system.phase = "saved"
    /\ \E api \in UploadApi, summary \in UploadApi :
         LET up == upload_to_sheets(sheet.ws, system.videos, api, summary)
         IN  IF ~system.upload_sheets
             THEN /\ system' = [system EXCEPT !.phase = "uploaded"]
                  /\ UNCHANGED sheet
             ELSE /\ system' = IF up.exc # "none" THEN UploadFailed(system, up.exc)
                               ELSE [system EXCEPT !.phase = "uploaded",
                                                   !.log = Append(@, "upload_to_sheets")]
                  /\ sheet' = [sheet EXCEPT !.phase = "called", !.ws = up.ws]
    /\ UNCHANGED <<filterVars, job>>

\* run_collection, step 4: the result
RunReturn ==
    /\ system.phase = "uploaded"
    /\ system' = [system EXCEPT !.phase = "returned", !.status = "success"]
    /\ UNCHANGED <<filterVars, job, sheet>>

NextRun == RunCollect \/ RunSaveFiles \/ RunUploadToSheets \/ RunReturn

SpecRun == InitRun /\ [][NextRun]_vars

\* the files that save_to_files writes for the videos under the output settings
ExpectedFiles(s) ==
    {[kind |-> "csv", content |-> s.videos] : x \in {y \in {1} : s.output_settings.csv_output}}
    \cup
    {[kind |-> "json", content |-> s.videos] : x \in {y \in {1} : s.output_settings.json_output}}

\* the upload was attempted
UploadAttempted(s) == \E i \in 1..Len(s.log) : s.log[i] = "upload_to_sheets"

\* C16: in a run with file saving and sheet upload both enabled, once the upload
\* has been attempted every file of the run is on disk, each written once and
\* before the upload; when the upload failed the run has raised the error of the
\* upload, and the files are still the ones written.
C16_FilesBeforeUpload ==
    system.phase \in {"uploaded", "returned", "raised"}
    /\ system.save_files /\ system.upload_sheets /\ UploadAttempted(system) =>
        /\ system.files = ExpectedFiles(system)
        /\ Len(system.log) = Cardinality(ExpectedFiles(system)) + 1
        /\ system.log[Len(system.log)] = "upload_to_sheets"
        /\ \A i \in 1..(Len(system.log) - 1) : system.log[i] \in {"csv", "json"}
        /\ sheet.phase = "called"
        /\ system.phase = "raised" => system.exc \in UploadApi \ {"ok"}

\* a run whose upload failed after both files were written
C16_Witness ==
    /\ system.phase = "raised"
    /\ system.save_files /\ system.upload_sheets
    /\ UploadAttempted(system)
    /\ system.exc = "APIError"
    /\ Cardinality(system.files) = 2
    /\ Len(system.videos) = 2

-----------------------------------------------------------------------------
(* filter_videos called twice on one batch, the clock frozen *)

\* a text of kana and Latin letters in equal parts, with digits: neither the
\* share of Japanese characters (6 of the 22 of the extracted text) nor the
\* keywords decide in the language stage, the answer of detect() does
MixedDesc ==
    <<"hi_su","hi_i","hi_de","hi_su","hi_ne","hi_ne"," ","n","i","c","e"," ",
      "1","2","3","4","5","6","7","8">>

MixedVideo(clock) == Put(GoodVideo(clock), "description", PyStr(MixedDesc))

TwiceBatches(clock) ==
    {<<v>> : v \in Catalogue(clock) \cup {MixedVideo(clock)}}
    \cup SeqsUpTo({GoodVideo(clock), TestVideo003(clock), MixedVideo(clock)}, MaxBatch)

InitTwice ==
    /\ config = TestConfig
    /\ now = [at |-> Now0, micro |-> FALSE]
    /\ videos \in TwiceBatches(now)
    /\ pc = "ready"
    /\ idx = 1
    /\ filtered_videos = <<>>
    /\ filter_stats = [r \in {} |-> 0]
    /\ outcomes = <<>>
    /\ run = NoRun
    /\ probe = [fn |-> "twice", again |-> FALSE, input |-> videos]
    /\ OthersIdle

\* the first call has returned: the caller keeps what it returned and calls
\* filter_videos again on the same batch
FilterVideosAgain ==
    /\ pc = "done"
    /\ probe.fn = "twice"
    /\ ~probe.again
    /\ probe' = [fn |-> "twice", again |-> TRUE, input |-> probe.input,
                 first |-> [outcomes |-> outcomes, filter_stats |-> filter_stats,
                            filtered_videos |-> filtered_videos]]
    /\ videos' = probe.input
    /\ pc' = "ready"
    /\ UNCHANGED <<config, now, idx, filtered_videos, filter_stats, outcomes, run, others>>

NextTwice ==
    \/ FilterVideosBegin
    \/ FilterVideosStep
    \/ FilterVideosReturn
    \/ FilterVideosAgain

SpecTwice == InitTwice /\ [][NextTwice]_vars

\* no record of the run ended in the except clause of the loop
NoErrorIn(outs) == \A i \in 1..Len(outs) : outs[i].kind # "error"

\* C17: when filter_videos has returned twice for the same batch, configuration
\* and clock, every record has the same outcome and the same reason in both
\* runs, and the statistics of the two runs are equal.  Stated for a batch of
\* records that carry the text of kana and Latin letters, and for runs in which
\* no record raised an error.
C17_SameOutcomeTwice ==
    pc = "done" /\ probe.fn = "twice" /\ probe.again
    /\ (\A i \in 1..Len(probe.input) : probe.input[i] = MixedVideo(now))
    /\ NoErrorIn(outcomes) /\ NoErrorIn(probe.first.outcomes) =>
        /\ Len(outcomes) = Len(probe.first.outcomes)
        /\ \A i \in 1..Len(outcomes) :
               /\ outcomes[i].kind = probe.first.outcomes[i].kind
               /\ outcomes[i].reason = probe.first.outcomes[i].reason
        /\ filter_stats = probe.first.filter_stats

-----------------------------------------------------------------------------
(* _parse_count_string on the values a count can be *)

\* _parse_count_string(count_str) for any value: int(count_str) for what is no
\* str, the conversion of the text otherwise
ParseCountValue(x) ==
    IF x.t # "str" THEN PyIntOf(x)
    ELSE IF ~IsText(x) THEN Raise("ValueError")
    ELSE _parse_count_string(x.s)

CountSigns == {<<>>, <<"-">>, <<"+">>}

CountBodies ==
    {<<"4","2">>, <<"1",".","2">>, <<"5","0","0">>, <<".","5">>, <<"1"," ","0">>,
     <<"a","b","c">>, <<>>}

\* texts of counts: a sign, digits with comma, space or point, a suffix in either
\* case
CountTexts ==
    {sign \o body \o suffix :
        sign \in CountSigns, body \in CountBodies,
        suffix \in {<<>>, <<"K">>, <<"k">>, <<"M">>, <<"m">>}}
    \cup {sign \o <<"1","2",",","3","4","5">> \o suffix :
            sign \in CountSigns, suffix \in {<<>>, <<"K">>}}
    \cup {sign \o body \o suffix :
            sign \in CountSigns, body \in {<<"1">>, <<"2">>}, suffix \in {<<"B">>, <<"b">>}}

CountValues ==
    {PyStr(s) : s \in CountTexts}
    \cup {PyInt(n) : n \in {-5, 0, 42, 1200000}}
    \cup {PyFloat(5, 2), PyFloat(-5, 2), PyFloat(0, 1), PyBool(TRUE), PyNone}

InitCount ==
    /\ config = TestConfig
    /\ now = [at |-> Now0, micro |-> TRUE]
    /\ probe \in {[fn |-> "count", input |-> x, done |-> FALSE] : x \in CountValues}
    /\ videos = <<>>
    /\ pc = "idle"
    /\ idx = 1
    /\ filtered_videos = <<>>
    /\ filter_stats = [r \in {} |-> 0]
    /\ outcomes = <<>>
    /\ run = NoRun
    /\ OthersIdle

\* _parse_count_string is applied to the input
ProbeParseCount ==
    /\ probe.fn = "count"
    /\ ~probe.done
    /\ probe' = [fn |-> "count", input |-> probe.input, done |-> TRUE,
                 result |-> ParseCountValue(probe.input)]
    /\ UNCHANGED <<config, now, videos, pc, idx, filtered_videos, filter_stats, outcomes,
                   run, others>>

NextCount == ProbeParseCount

SpecCount == InitCount /\ [][NextCount]_vars

\* C18: whatever _parse_count_string returns for an int, a float or a text is a
\* non-negative integer; "1.2M" gives 1200000, "500K" 500000, "12,345" 12345 and
\* "42" 42.
C18_CountParser ==
    probe.fn = "count" /\ probe.done /\ probe.input.t \in {"int", "float", "str"}
    /\ ~Raised(probe.result) =>
        /\ probe.result.v >= 0
        /\ probe.input = PyStr(<<"1",".","2","M">>) => probe.result.v = 1200000
        /\ probe.input = PyStr(<<"5","0","0","K">>) => probe.result.v = 500000
        /\ probe.input = PyStr(<<"1","2",",","3","4","5">>) => probe.result.v = 12345
        /\ probe.input = PyStr(<<"4","2">>) => probe.result.v = 42

-----------------------------------------------------------------------------
(* filter_videos on batches with view counts that are no numbers *)

\* GoodVideo with the view count given as the text s
WithViews(clock, s) == Put(GoodVideo(clock), "view_count", PyStr(s))

\* records whose view count is a text: no number at all, a suffix with nothing
\* before it, two points before a suffix, digits followed by a letter; and, next
\* to them, numbers above and below min_views
ViewsCatalogue(clock) ==
    { WithViews(clock, <<"a","b","c">>),
      WithViews(clock, <<"K">>),
      WithViews(clock, <<"1",".","2",".","3","M">>),
      WithViews(clock, <<"1","2",",","3","x">>),
      WithViews(clock, <<"1",".","2","M">>),
      WithViews(clock, <<"4","2">>),
      GoodVideo(clock) }

InitViews ==
    /\ config = TestConfig
    /\ now = [at |-> Now0, micro |-> FALSE]
    /\ videos \in SeqsUpTo(ViewsCatalogue(now), MaxBatch)
    /\ pc = "ready"
    /\ idx = 1
    /\ filtered_videos = <<>>
    /\ filter_stats = [r \in {} |-> 0]
    /\ outcomes = <<>>
    /\ run = NoRun
    /\ probe = NoProbe
    /\ OthersIdle

NextViews ==
    \/ FilterVideosBegin
    \/ FilterVideosStep
    \/ FilterVideosReturn

SpecViews == InitViews /\ [][NextViews]_vars

\* the view count of the record is a text that the conversion refuses
ViewsNotNumeric(video) ==
    LET view_count == Get(video, "view_count")
    IN  /\ IsText(view_count)
        /\ Raised(_parse_count_string(view_count.s))

-----------------------------------------------------------------------------
(* _check_language_filter under configured sets of languages *)

\* sets given as languages in the configuration
LanguageSets == {{"ja", "jp"}, {"ja"}, {"en"}, {}}

LanguageConfigs ==
    {[TestConfig EXCEPT !.languages = l] : l \in LanguageSets} \cup {[min_views |-> 500000]}

InitLanguage ==
    /\ config \in LanguageConfigs
    /\ now = [at |-> Now0, micro |-> FALSE]
    /\ probe \in {[fn |-> "language", video |-> v, done |-> FALSE] :
                     v \in Catalogue(now) \cup {MixedVideo(now)}}
    /\ videos = <<>>
    /\ pc = "idle"
    /\ idx = 1
    /\ filtered_videos = <<>>
    /\ filter_stats = [r \in {} |-> 0]
    /\ outcomes = <<>>
    /\ run = NoRun
    /\ OthersIdle

\* _check_language_filter on the record; detected is the answer of detect()
ProbeLanguageFilter ==
    /\ probe.fn = "language"
    /\ ~probe.done
    /\ \E detected \in DetectOutcomes :
         probe' = [fn |-> "language", video |-> probe.video, done |-> TRUE,
                   detected |-> detected,
                   stage |-> _check_language_filter(probe.video, detected)]
    /\ UNCHANGED <<config, now, videos, pc, idx, filtered_videos, filter_stats, outcomes,
                   run, others>>

NextLanguage == ProbeLanguageFilter

SpecLanguage == InitLanguage /\ [][NextLanguage]_vars

\* the three signals of the record's text, the language as _detect_language
\* gives it
LanguageSignals(video, detected) ==
    LET text == _extract_text_content(video).v
    IN  [script |-> _calculate_japanese_score(text),
         keyword |-> _calculate_keyword_score(text),
         language |-> _detect_language(text, detected).v]

\* C20: the language stage passes a record exactly when the share of Japanese
\* characters is above 0.3, or the detected language is one of the languages of
\* the configuration, or the keyword density is above 0.2.  Stated for calls in
\* which detect() answered "en".
C20_ConfiguredLanguages ==
    probe.fn = "language" /\ probe.done /\ probe.detected = "en"
    /\ ~Raised(_extract_text_content(probe.video)) =>
        LET signals == LanguageSignals(probe.video, probe.detected)
        IN  /\ ~Raised(probe.stage)
            /\ probe.stage.v <=> \/ RatGt(signals.script, 3, 10)
                                 \/ signals.language \in target_languages(config)
                                 \/ RatGt(signals.keyword, 2, 10)

-----------------------------------------------------------------------------
(* _apply_filters and its last three stages on single records *)

\* the stages are applied to the record; detected is the answer of detect()
ProbeStages ==
    /\ probe.fn = "stages"
    /\ ~probe.done
    /\ \E detected \in DetectOutcomes :
         probe' = [fn |-> "stages", video |-> probe.video, done |-> TRUE,
                   detected |-> detected,
                   language |-> _check_language_filter(probe.video, detected),
                   region |-> _check_region_filter(probe.video, config),
                   quality |-> _check_quality_filter(probe.video),
                   applied |-> _apply_filters(probe.video, config, now, detected)]
    /\ UNCHANGED <<config, now, videos, pc, idx, filtered_videos, filter_stats, outcomes,
                   run, others>>

\* the state before the stages are applied to one of the records given
InitStages(records, configs) ==
    /\ config \in configs
    /\ now = [at |-> Now0, micro |-> FALSE]
    /\ probe \in {[fn |-> "stages", video |-> v, done |-> FALSE] : v \in records}
    /\ videos = <<>>
    /\ pc = "idle"
    /\ idx = 1
    /\ filtered_videos = <<>>
    /\ filter_stats = [r \in {} |-> 0]
    /\ outcomes = <<>>
    /\ run = NoRun
    /\ OthersIdle

NextStages == ProbeStages

\* records on which the language stage meets an exception: a description, a
\* music title or a hashtag that is no text, a music entry that is no dict; each
\* on Japanese and on English text
LanguageFaults(clock) ==
    LET bases == {GoodVideo(clock), TestVideo002(clock), MixedVideo(clock),
                  Put(GoodVideo(clock), "view_count", PyInt(800000))}
    IN  UNION {{ Put(b, "description", PyInt(5)),
                 Put(b, "music_title", PyInt(7)),
                 Put(b, "hashtags", PyList(<<PyInt(1)>>)),
                 Put(b, "music", PyStr(<<"x">>)),
                 Put(b, "music", PyDict([title |-> PyStr(<<"kj_nichi", "kj_hon">>)])),
                 b } : b \in bases}

InitLanguageFaults == InitStages(LanguageFaults(now), Configs)

SpecLanguageFaults == InitLanguageFaults /\ [][NextStages]_vars

\* the language stage was reached
LanguageReached(applied) ==
    \E i \in 1..Len(applied.evaluated) : applied.evaluated[i] = "language"

\* text extraction or language detection raises on the record
LanguageRaises(video, detected) ==
    \/ Raised(_extract_text_content(video))
    \/ Raised(_detect_language(_extract_text_content(video).v, detected))

\* C21: when the language stage is reached and the extraction of the text or the
\* detection of the language raises, no exception leaves the stage, the stage
\* fails and the record is rejected with the reason language.
C21_LanguageFailClosed ==
    probe.fn = "stages" /\ probe.done /\ LanguageReached(probe.applied)
    /\ LanguageRaises(probe.video, probe.detected) =>
        /\ probe.language = Ok(FALSE)
        /\ probe.applied.exc = "none"
        /\ ~probe.applied.passed
        /\ probe.applied.reason = "language"

\* a record with a description that is no text, rejected by the language stage
C21_Witness ==
    /\ probe.fn = "stages" /\ probe.done
    /\ Get(probe.video, "description") = PyInt(5)
    /\ Raised(_extract_text_content(probe.video))
    /\ LanguageReached(probe.applied)
    /\ probe.applied.reason = "language"

\* records on which the region stage meets an exception after the comparison of
\* the region: a follower count that is a text or a list, at the top or under
\* author; a music entry that is no dict; each on several texts
RegionFaults(clock) ==
    LET bases == {GoodVideo(clock), TestVideo002(clock), MixedVideo(clock),
                  Put(GoodVideo(clock), "description", PyStr(ShortDesc))}
    IN  UNION {{ Put(b, "follower_count", PyStr(<<"5", "k">>)),
                 Put(b, "follower_count", PyList(<<PyInt(1)>>)),
                 Put(b, "author", PyDict([followerCount |-> PyStr(<<"5", "k">>)])),
                 Put(b, "author", PyDict([followerCount |-> PyNone])),
                 Put(b, "music", PyStr(<<"x">>)),
                 Put(b, "follower_count", PyInt(200000)),
                 b } : b \in bases}

InitRegionFaults == InitStages(RegionFaults(now), Configs)

SpecRegionFaults == InitRegionFaults /\ [][NextStages]_vars

\* video.get('follower_count') or video.get('author', {}).get('followerCount') or 0
FollowerCount(video) ==
    LET author == ValueGet(GetDefault(video, "author", PyDict(EmptyDict)), "followerCount")
    IN  IF Truthy(Get(video, "follower_count")) THEN Ok(Get(video, "follower_count"))
        ELSE IF Raised(author) THEN author
        ELSE Ok(PyOr(author.v, PyInt(0)))

\* the record names no region, and the extraction of its text or the comparison
\* of its follower count raises
RegionRaises(video) ==
    /\ Get(video, "region").t = "none"
    /\ Get(video, "country").t = "none"
    /\ \/ Raised(_extract_text_content(video))
       \/ /\ \A k \in 1..Len(exclude_keywords) :
                 ~Contains(_extract_text_content(video).v, Lower(exclude_keywords[k]))
          /\ \/ Raised(FollowerCount(video))
             \/ Raised(FollowerBelow(FollowerCount(video).v, 100000))

\* the region stage was reached
RegionReached(applied) ==
    \E i \in 1..Len(applied.evaluated) : applied.evaluated[i] = "region"

\* C22: when the exclusion-keyword check or the authenticity computation of the
\* region stage raises, the stage passes the record; and when _apply_filters
\* reached the region stage for such a record, it went on to the quality stage.
C22_RegionFailOpen ==
    probe.fn = "stages" /\ probe.done /\ RegionRaises(probe.video) =>
        /\ probe.region = Ok(TRUE)
        /\ RegionReached(probe.applied) =>
               /\ probe.applied.exc = "none"
               /\ probe.applied.evaluated[Len(probe.applied.evaluated)] = "quality"
               /\ probe.applied.reason \in {"passed", "quality"}

\* a record with a follower count that is a text, past the region stage
C22_Witness ==
    /\ probe.fn = "stages" /\ probe.done
    /\ Get(probe.video, "follower_count") = PyStr(<<"5", "k">>)
    /\ RegionRaises(probe.video)
    /\ RegionReached(probe.applied)
    /\ probe.applied.passed

\* the region of a record and the target_region of the configuration in several
\* letter-casings
RegionTexts == {<<"J", "P">>, <<"j", "p">>, <<"J", "p">>, <<"U", "S">>}

RegionConfigs ==
    {[TestConfig EXCEPT !.target_region = r] : r \in {<<"J", "P">>, <<"j", "p">>, <<"J", "p">>}}
    \cup {[min_views |-> 500000]}

\* records that name a region or a country, on a Japanese text, on a Japanese
\* text with an exclusion keyword and on an English text of a tourist
RegionRecords(clock) ==
    LET bases == {GoodVideo(clock),
                  Put(GoodVideo(clock), "description",
                      PyStr(Desc001 \o <<" ","#","t","r","a","v","e","l">>)),
                  Put(GoodVideo(clock), "description", PyStr(Desc002))}
    IN  UNION {{Put(b, "region", PyStr(r)) : r \in RegionTexts}
               \cup {Put(b, "country", PyStr(r)) : r \in RegionTexts}
               \cup {b} : b \in bases}

InitRegionCase == InitStages(RegionRecords(now), RegionConfigs)

SpecRegionCase == InitRegionCase /\ [][NextStages]_vars

\* video.get('region') or video.get('country') or ''
RegionOf(video) == PyOr(Get(video, "region"), PyOr(Get(video, "country"), PyStr(<<>>)))

\* C23: a record whose region (or country) equals the target_region of the
\* configuration, letter-casing set aside on both sides, passes the region stage.
C23_RegionAnyCasing ==
    probe.fn = "stages" /\ probe.done /\ IsText(RegionOf(probe.video))
    /\ Upper(RegionOf(probe.video).s) = Upper(target_region(config)) =>
        probe.region = Ok(TRUE)

\* a text of kana and Latin letters with 5 Japanese characters among the 20 of
\* the extracted text: the authenticity score of a regular user is 0.4 exactly
TieDesc ==
    <<"hi_su","hi_i","hi_de","hi_su","hi_ne"," ","n","i","c","e"," ","1","2","3","4","5","6","7">>

\* records for the authenticity score: texts around the threshold, with and
\* without an exclusion keyword, and follower counts around 100000 at the top of
\* the record, under author, or absent; a record of another region
AuthenticRecords(clock) ==
    LET texts == {Desc001, Desc002, Desc003, MixedDesc, TieDesc, ShortDesc,
                  Desc001 \o <<" ","#","t","r","a","v","e","l">>,
                  <<"H","e","l","l","o"," ","w","o","r","l","d"," ","f","r","o","m"," ","m","e">>}
        bases == {Put(Without(GoodVideo(clock), "author"), "description", PyStr(t)) : t \in texts}
    IN  UNION {{ b,
                 Put(b, "follower_count", PyInt(99999)),
                 Put(b, "follower_count", PyInt(100000)),
                 Put(b, "author", PyDict([followerCount |-> PyInt(5000)])),
                 Put(b, "author", PyDict([followerCount |-> PyInt(200000)])),
                 Put(Put(b, "region", PyStr(<<"U", "S">>)), "follower_count", PyInt(200000)) }
               : b \in bases}

InitAuthentic == InitStages(AuthenticRecords(now), {TestConfig})

SpecAuthentic == InitAuthentic /\ [][NextStages]_vars

\* the text of the record holds an exclusion keyword
HasExcludeKeyword(text) ==
    \E k \in 1..Len(exclude_keywords) : Contains(text, Lower(exclude_keywords[k]))

\* 0.4 * script + 0.3 * keyword + bonus / 10 > 0.4, the two scores as rationals
AuthenticityAbove(script, keyword, bonus) ==
    4 * script.num * keyword.den + 3 * keyword.num * script.den
        + bonus * script.den * keyword.den
    > 4 * script.den * keyword.den

\* C24: for a record whose region is not the target region and on which nothing
\* raises, the region stage fails when the text holds an exclusion keyword, and
\* otherwise passes exactly when 0.4 * scriptRatio + 0.3 * keywordDensity + (0.3
\* for a follower count below 100000, else 0.1) is above 0.4, an absent follower
\* count taken as 0.
C24_RegionScore ==
    probe.fn = "stages" /\ probe.done
    /\ IsText(RegionOf(probe.video))
    /\ Upper(RegionOf(probe.video).s) # target_region(config)
    /\ ~Raised(_extract_text_content(probe.video))
    /\ ~Raised(FollowerCount(probe.video))
    /\ FollowerCount(probe.video).v.t = "int" =>
        LET text == _extract_text_content(probe.video).v
            followers == FollowerCount(probe.video).v.v
        IN  /\ ~Raised(probe.region)
            /\ HasExcludeKeyword(text) => ~probe.region.v
            /\ ~HasExcludeKeyword(text) =>
                 (probe.region.v <=>
                    AuthenticityAbove(_calculate_japanese_score(text),
                                      _calculate_keyword_score(text),
                                      IF followers < 100000 THEN 3 ELSE 1))

\* a record of exactly 100000 followers whose text would pass for a regular user,
\* failed by the region stage
C24_Witness ==
    /\ probe.fn = "stages" /\ probe.done
    /\ Get(probe.video, "follower_count") = PyInt(100000)
    /\ Get(probe.video, "description") = PyStr(MixedDesc)
    /\ probe.region = Ok(FALSE)

\* n copies of the character c
RECURSIVE Copies(_, _)
Copies(c, n) == IF n = 0 THEN <<>> ELSE <<c>> \o Copies(c, n - 1)

\* descriptions for the quality stage: runs of one character and of marks around
\* the lengths the patterns ask for, the two URL marks, lengths around 5
QualityDescs ==
    { Copies("a", 9) \o <<" ", "o", "k">>,
      Copies("a", 10) \o <<" ", "o", "k">>,
      Copies("a", 11) \o <<" ", "o", "k">>,
      <<"w", "o", "w">> \o Copies("!", 4),
      <<"w", "o", "w">> \o Copies("!", 5),
      <<"w", "h", "y">> \o Copies("?", 5),
      <<"s", "e", "e", " ", "w", "w", "w", ".", "x">>,
      <<"s", "e", "e", " ", "h", "t", "t", "p", "x">>,
      <<"g", "o", "o", "d">>,
      <<"g", "o", "o", "d", "s">>,
      Desc001 }

\* records for the quality stage: the description under description, the counts
\* as ints under view_count, like_count and comment_count, with an engagement
\* above, at and below one per thousand, and without views
QualityRecords(clock) ==
    {[GoodVideo(clock) EXCEPT !.description = PyStr(d),
                              !.like_count = PyInt(likes),
                              !.comment_count = PyInt(0),
                              !.view_count = PyInt(views)] :
        d \in QualityDescs,
        likes \in {999, 1000},
        views \in {0, 1000000}}

InitQuality == InitStages(QualityRecords(now), {TestConfig})

SpecQuality == InitQuality /\ [][NextStages]_vars

\* the text holds at least n consecutive copies of one character
HasRunOf(s, n) ==
    \E i \in 1..Len(s) :
        /\ i + n - 1 <= Len(s)
        /\ \A j \in i..(i + n - 1) : s[j] = s[i]

\* one of the conditions under which the quality stage is to fail the record
QualityFault(description, view_count, like_count, comment_count) ==
    \/ Len(description) < 5
    \/ view_count > 0 /\ 1000 * (like_count + comment_count) < view_count
    \/ HasRunOf(description, 10)
    \/ HasRun5(description, "!")
    \/ HasRun5(description, "?")
    \/ Contains(description, <<"w", "w", "w", ".">>)
    \/ Contains(description, <<"h", "t", "t", "p">>)

\* C25: the quality stage fails a record exactly when its description is shorter
\* than 5 characters, or it has views and its likes and comments are less than
\* one per thousand of them, or its description holds 10 or more copies of one
\* character in a row, 5 or more "!" or "?" in a row, "www." or "http".  Stated
\* for records with the description under description and the counts as ints
\* under view_count, like_count and comment_count.
C25_QualityConditions ==
    probe.fn = "stages" /\ probe.done
    /\ IsText(Get(probe.video, "description"))
    /\ Get(probe.video, "view_count").t = "int"
    /\ Get(probe.video, "like_count").t = "int"
    /\ Get(probe.video, "comment_count").t = "int" =>
        /\ ~Raised(probe.quality)
        /\ probe.quality.v <=>
             ~QualityFault(Get(probe.video, "description").s,
                           Get(probe.video, "view_count").v,
                           Get(probe.video, "like_count").v,
                           Get(probe.video, "comment_count").v)

-----------------------------------------------------------------------------
(* the two scores of a text *)

\* words of the texts: two keywords, kana, Latin letters, a keyword in Latin
\* letters
ScoreWords ==
    {<<"kj_tou", "kj_kyou">>, <<"kj_eki">>, <<"hi_de", "hi_su">>, <<"o", "k">>, <<"j", "r">>}

\* texts of at most two words, joined with or without a space
ScoreTexts ==
    {<<>>, <<" ">>}
    \cup ScoreWords
    \cup {a \o sep \o b : a \in ScoreWords, b \in ScoreWords, sep \in {<<>>, <<" ">>}}

InitScores ==
    /\ config = TestConfig
    /\ now = [at |-> Now0, micro |-> FALSE]
    /\ probe \in {[fn |-> "scores", text |-> t, done |-> FALSE] : t \in ScoreTexts}
    /\ videos = <<>>
    /\ pc = "idle"
    /\ idx = 1
    /\ filtered_videos = <<>>
    /\ filter_stats = [r \in {} |-> 0]
    /\ outcomes = <<>>
    /\ run = NoRun
    /\ OthersIdle

\* _calculate_japanese_score and _calculate_keyword_score on the text
ProbeScores ==
    /\ probe.fn = "scores"
    /\ ~probe.done
    /\ probe' = [fn |-> "scores", text |-> probe.text, done |-> TRUE,
                 japanese_score |-> _calculate_japanese_score(probe.text),
                 keyword_score |-> _calculate_keyword_score(probe.text)]
    /\ UNCHANGED <<config, now, videos, pc, idx, filtered_videos, filter_stats, outcomes,
                   run, others>>

NextScores == ProbeScores

SpecScores == InitScores /\ [][NextScores]_vars

\* 0 <= x <= 1 for the rational x
InUnitInterval(x) == x.den > 0 /\ 0 <= x.num /\ x.num <= x.den

\* C26: the share of Japanese characters and the keyword density of a text both
\* lie between 0 and 1, and both are 0 for the empty text.
C26_ScoresInUnitInterval ==
    probe.fn = "scores" /\ probe.done =>
        /\ InUnitInterval(probe.japanese_score)
        /\ InUnitInterval(probe.keyword_score)
        /\ probe.text = <<>> => probe.japanese_score.num = 0 /\ probe.keyword_score.num = 0

-----------------------------------------------------------------------------
(* the per-stage counters of filter_stats *)

\* the counters of filter_stats that are named after a stage
StageCounters ==
    [time |-> "passed_time_filter", views |-> "passed_views_filter",
     verified |-> "passed_verified_filter", language |-> "passed_language_filter",
     region |-> "passed_region_filter"]

\* the record of the outcome passed the stage: the stage was called and was not
\* the one that ended the chain, or the record was accepted
PassedStage(outcome, stage) ==
    \E k \in 1..Len(outcome.evaluated) :
        /\ outcome.evaluated[k] = stage
        /\ (k < Len(outcome.evaluated) \/ outcome.kind = "accepted")

\* C27: when filter_videos has returned for a non-empty batch, each per-stage
\* counter of the statistics is the number of records that passed the stage, and
\* the counter of the region stage is at least final_output.
C27_StagePassCounts ==
    Returned /\ videos # <<>> =>
        /\ \A stage \in DOMAIN StageCounters :
               filter_stats[StageCounters[stage]] =
                   Cardinality({i \in 1..Len(outcomes) : PassedStage(outcomes[i], stage)})
        /\ filter_stats.passed_region_filter >= filter_stats.final_output

-----------------------------------------------------------------------------
(* the language detector on its own *)

\* texts for the detector: of 9 and of 10 characters, of 9 characters inside
\* spaces, the descriptions of the catalogue, and the short texts of the scores
DetectTexts ==
    { Copies("a", 9), Copies("a", 10),
      <<" ", " ">> \o Copies("a", 9) \o <<" ">>,
      <<" ">> \o Copies("a", 10),
      Copies(" ", 12),
      Desc001, Desc002, Desc003, MixedDesc, TieDesc, ShortDesc }
    \cup ScoreWords
    \cup {a \o <<" ">> \o b : a \in ScoreWords, b \in ScoreWords}

InitDetect ==
    /\ config = TestConfig
    /\ now = [at |-> Now0, micro |-> FALSE]
    /\ probe \in {[fn |-> "detect", text |-> t, done |-> FALSE] : t \in DetectTexts}
    /\ videos = <<>>
    /\ pc = "idle"
    /\ idx = 1
    /\ filtered_videos = <<>>
    /\ filter_stats = [r \in {} |-> 0]
    /\ outcomes = <<>>
    /\ run = NoRun
    /\ OthersIdle

\* _detect_language on the text, detect() answering or raising
ProbeDetect ==
    /\ probe.fn = "detect"
    /\ ~probe.done
    /\ \E detected \in DetectOutcomes :
         probe' = [fn |-> "detect", text |-> probe.text, done |-> TRUE,
                   detected |-> detected,
                   result |-> _detect_language(probe.text, detected)]
    /\ UNCHANGED <<config, now, videos, pc, idx, filtered_videos, filter_stats, outcomes,
                   run, others>>

NextDetect == ProbeDetect

SpecDetect == InitDetect /\ [][NextDetect]_vars

\* C28: the language detector never raises to its caller; it returns "unknown"
\* for a text of fewer than 10 characters and whenever detect() raises, whatever
\* the exception, and otherwise the code detect() answered.
C28_DetectorNeverRaises ==
    probe.fn = "detect" /\ probe.done =>
        /\ ~Raised(probe.result)
        /\ Len(Strip(probe.text)) < 10 \/ probe.detected \notin DetectLanguages =>
             probe.result = Ok("unknown")
        /\ Len(Strip(probe.text)) >= 10 /\ probe.detected \in DetectLanguages =>
             probe.result = Ok(probe.detected)

-----------------------------------------------------------------------------
(* termination of wait_for_completion *)

\* the call has ended: it returned the results, or raised an exception
WaitEnded ==
    \/ job.phase = "returned" /\ job.result = "results" /\ job.exc = "none"
    \/ job.phase = "raised" /\ job.exc # "none" /\ job.result = "none"

\* C29: whatever the polls and the fetch answer (pending, running, an unknown
\* status, completed, failed, an error of the transport, an error of the fetch),
\* with a clock that advances wait_for_completion ends: it returns the results or
\* raises an exception, and from then on polls no more.
C29_WaitTerminates ==
    /\ <>WaitEnded
    /\ [][WaitEnded => job' = job]_vars

\* a wait that returned the results on its third poll or later, after a poll
\* that observed failed and a fetch that raised
C29_Witness ==
    /\ job.phase = "returned"
    /\ job.result = "results"
    /\ job.polls >= 3
    /\ "failed" \in job.observed
    /\ "JSONDecodeError" \in job.logged

-----------------------------------------------------------------------------
(* the removal of duplicates in a hybrid collection *)

\* a record of the source with the fields given and a description
SourceRecord(fields, description) ==
    [f \in DOMAIN fields \cup {"description"} |->
        IF f = "description" THEN PyStr(description) ELSE fields[f]]

\* records the two sources return: the id "a" under video_id and, with another
\* description, under id; the id "b" under aweme_id and, behind an empty
\* video_id, under id; a record without id field, and one whose only id field is
\* None
DuplicateCatalogue ==
    { SourceRecord([video_id |-> PyStr(<<"a">>)], <<"1">>),
      SourceRecord([id |-> PyStr(<<"a">>)], <<"2">>),
      SourceRecord([aweme_id |-> PyStr(<<"b">>)], <<"1">>),
      SourceRecord([video_id |-> PyStr(<<>>), id |-> PyStr(<<"b">>)], <<"2">>),
      SourceRecord(<<>>, <<"1">>),
      SourceRecord([video_id |-> PyNone], <<"3">>) }

InitDuplicates ==
    /\ config = TestConfig
    /\ now = [at |-> Now0, micro |-> FALSE]
    /\ probe \in {[fn |-> "hybrid", discover_videos |-> d, hashtag_videos |-> h,
                   done |-> FALSE] :
                     d \in SeqsUpTo(DuplicateCatalogue, MaxFetch),
                     h \in SeqsUpTo(DuplicateCatalogue, MaxFetch)}
    /\ videos = <<>>
    /\ pc = "idle"
    /\ idx = 1
    /\ filtered_videos = <<>>
    /\ filter_stats = [r \in {} |-> 0]
    /\ outcomes = <<>>
    /\ run = NoRun
    /\ OthersIdle

\* _collect_hybrid on what the two sources returned
ProbeCollectHybrid ==
    /\ probe.fn = "hybrid"
    /\ ~probe.done
    /\ probe' = [fn |-> "hybrid", discover_videos |-> probe.discover_videos,
                 hashtag_videos |-> probe.hashtag_videos, done |-> TRUE,
                 all_videos |-> probe.discover_videos \o probe.hashtag_videos,
                 unique_videos |-> _collect_hybrid(probe.discover_videos,
                                                   probe.hashtag_videos)]
    /\ UNCHANGED <<config, now, videos, pc, idx, filtered_videos, filter_stats, outcomes,
                   run, others>>

NextDuplicates == ProbeCollectHybrid

SpecDuplicates == InitDuplicates /\ [][NextDuplicates]_vars

\* the mark of a record without id
NoId == [t |-> "noid"]

\* the record holds a value under the field: the field is there, and is neither
\* None nor empty
HoldsId(video, field) ==
    field \in DOMAIN video /\ video[field] \notin {PyNone, PyStr(<<>>)}

\* the id of a record: video_id, else id, else aweme_id
IdOf(video) ==
    IF HoldsId(video, "video_id") THEN video["video_id"]
    ELSE IF HoldsId(video, "id") THEN video["id"]
    ELSE IF HoldsId(video, "aweme_id") THEN video["aweme_id"]
    ELSE NoId

\* the positions of the list that hold the first record of an id
FirstOfId(list) ==
    {k \in 1..Len(list) :
        IdOf(list[k]) # NoId /\ \A j \in 1..(k - 1) : IdOf(list[j]) # IdOf(list[k])}

\* the i-th smallest position of the set
NthOf(positions, i) ==
    CHOOSE k \in positions : Cardinality({j \in positions : j <= k}) = i

\* C30: the removal of duplicates of a hybrid collection returns the records of
\* discover_videos + hashtag_videos that are the first of their id (video_id,
\* else id, else aweme_id), in the order of the input: every id of the input
\* occurs once in the result, and a record without id does not occur in it.
C30_DuplicateRemoval ==
    probe.fn = "hybrid" /\ probe.done =>
        LET input == probe.all_videos
            result == probe.unique_videos
            first == FirstOfId(input)
        IN  /\ Len(result) = Cardinality(first)
            /\ \A i \in 1..Len(result) : result[i] = input[NthOf(first, i)]
            /\ \A i, j \in 1..Len(result) : i # j => IdOf(result[i]) # IdOf(result[j])
            /\ \A k \in 1..Len(input) :
                   IF IdOf(input[k]) = NoId
                   THEN \A i \in 1..Len(result) : result[i] # input[k]
                   ELSE \E i \in 1..Len(result) : IdOf(result[i]) = IdOf(input[k])

\* a hybrid collection in which the hashtag source repeats, under another field
\* and with another description, an id of the discover source, and a record
\* without id is dropped
C30_Witness ==
    /\ probe.fn = "hybrid" /\ probe.done
    /\ probe.discover_videos = <<SourceRecord([video_id |-> PyStr(<<"a">>)], <<"1">>),
                                 SourceRecord(<<>>, <<"1">>)>>
    /\ probe.hashtag_videos = <<SourceRecord([aweme_id |-> PyStr(<<"b">>)], <<"1">>),
                                SourceRecord([id |-> PyStr(<<"a">>)], <<"2">>)>>
    /\ probe.unique_videos = <<SourceRecord([video_id |-> PyStr(<<"a">>)], <<"1">>),
                               SourceRecord([aweme_id |-> PyStr(<<"b">>)], <<"1">>)>>

=============================================================================
